---- MODULE Spec2Model ----
(***************************************************************************)
(* Docstring inheritance (AntoineD/docstring-inheritance).                 *)
(*                                                                         *)
(* A docstring is parsed into an ordered mapping "section name -> body",   *)
(* the sections of a parent are merged into those of a child against the   *)
(* signature of the child callable, and the result is rendered back to     *)
(* text.  The sources hold three generations of this pipeline:             *)
(*   - docstring_inheritors/bases/inheritor.py  BaseDocstringInheritor,    *)
(*     used by docstring_inheritors/google.py;                             *)
(*   - docstring_inheritors/base.py  AbstractDocstringInheritor,           *)
(*     used by docstring_inheritors/numpy.py;                              *)
(*   - processors/base.py  AbstractDocstringProcessor, used by             *)
(*     processors/google.py and processors/numpy.py.                       *)
(* The variable cls names the class whose code runs.                       *)
(*                                                                         *)
(* A Python dict is a sequence of entries [k |-> key, v |-> value] with    *)
(* pairwise distinct keys, in insertion order.  A section body is a record *)
(* [kind, text, items]: kind "str" carries text, kind "dict" carries the   *)
(* items of an item section (a dict of name -> description).               *)
(***************************************************************************)
EXTENDS Integers, Sequences, FiniteSets, TLC

VARIABLES
    cls,               \* the docstring inheritor class in use
    parent_doc,        \* inherit: the parent docstring, None or a text
    child_func,        \* the child callable: [doc, spec], spec = getfullargspec
    parent_sections,   \* the parsed sections of the parent
    child_sections,    \* the sections of the child, replaced by the merge
    child_sections_in, \* the sections of the child as given or parsed
    returned,          \* <<value>> once _inherit_sections returned a value
    warnings,          \* the warnings issued so far, oldest first
    rendered,          \* the docstrings rendered so far, oldest first
    attr_name,         \* the name of the method of the class processed
    mro_classes,       \* that method in each parent class, closest first
    mro_index,         \* the number of parent classes the loop went through
    visited,           \* the parents whose docstring was inherited, in order
    class_doc,         \* the __doc__ of the class processed
    init_in_class,     \* whether the class docstring documents __init__
    init_methods,      \* the __init__ defined by the class and by each parent
    init_method,       \* the place in init_methods of the __init__ used, or 0
    old_init_doc,      \* the __doc__ of that __init__ before the step
    environ,           \* DOCSTRING_INHERITANCE_SIMILARITY_RATIO in os.environ
    SIMILARITY_RATIO,  \* the global of inheritor.py, <<numerator, denominator>>
    pc                 \* the position in the pipeline

vars == <<cls, parent_doc, child_func, parent_sections, child_sections,
          child_sections_in, returned, warnings, rendered, attr_name,
          mro_classes, mro_index, visited, class_doc, init_in_class,
          init_methods, init_method, old_init_doc, environ,
          SIMILARITY_RATIO, pc>>

\* The variables of the processing of a class.
class_vars == <<attr_name, mro_classes, mro_index, visited, class_doc,
                init_in_class, init_methods, init_method, old_init_doc>>

\* The variables of the __init__ whose arguments the class docstring documents.
init_vars == <<init_in_class, init_methods, init_method, old_init_doc>>

\* The variables of the initialisation of the module inheritor.
module_vars == <<environ, SIMILARITY_RATIO>>

-----------------------------------------------------------------------------
(* Bounds of the explored inputs.                                          *)

MaxArgs == 2       \* positional parameters of a signature
MaxItems == 2      \* items of an item section of an input
MaxSections == 2   \* sections of an input Section Model
MaxParents == 2    \* parent classes in the resolution order of a class
MaxLines == 3      \* lines of a docstring given to the parsers

-----------------------------------------------------------------------------
(* Python values.                                                          *)

\* None: a value that is no section name (no header line holds a newline),
\* no parameter name and none of the docstrings explored.
None == "\nNone"

StrBody(text) == [kind |-> "str", text |-> text, items |-> <<>>]
DictBody(items) == [kind |-> "dict", text |-> "", items |-> items]

\* dict.keys(), as a set and in iteration order.
KeySet(d) == {d[i].k : i \in 1..Len(d)}
KeyList(d) == [i \in 1..Len(d) |-> d[i].k]

\* key in d
DictHas(d, key) == \E i \in 1..Len(d) : d[i].k = key

\* d[key]
DictGet(d, key) == d[CHOOSE i \in 1..Len(d) : d[i].k = key].v

\* d.get(key, default)
DictGetDefault(d, key, default) ==
    IF DictHas(d, key) THEN DictGet(d, key) ELSE default

\* d[key] = val: an existing key keeps its position, a new key goes last.
DictSet(d, key, val) ==
    IF DictHas(d, key)
    THEN [i \in 1..Len(d) |->
            IF d[i].k = key THEN [k |-> key, v |-> val] ELSE d[i]]
    ELSE Append(d, [k |-> key, v |-> val])

\* del d[key]
DictDel(d, key) == SelectSeq(d, LAMBDA e : e.k # key)

\* d.update(other)
RECURSIVE DictUpdate(_, _)
DictUpdate(d, other) ==
    IF other = <<>> THEN d
    ELSE DictUpdate(DictSet(d, Head(other).k, Head(other).v), Tail(other))

\* The orders in which a Python set can be iterated: the order depends on the
\* hashes of the members, which vary from run to run for strings.
SetIterations(S) ==
    {s \in [1..Cardinality(S) -> S] : \A i, j \in 1..Cardinality(S) :
                                          s[i] = s[j] => i = j}

\* list.remove(x): drops the first occurrence.
ListRemove(l, x) ==
    LET i == CHOOSE n \in 1..Len(l) : l[n] = x /\ \A m \in 1..(n - 1) : l[m] # x
    IN  SubSeq(l, 1, i - 1) \o SubSeq(l, i + 1, Len(l))

ListHas(l, x) == \E i \in 1..Len(l) : l[i] = x

-----------------------------------------------------------------------------
(* Python strings.  The texts explored hold no tab and no line boundary    *)
(* other than "\n".                                                        *)

Chr(s, i) == SubSeq(s, i, i)

\* str.isspace of a character.
IsSpace(ch) == ch \in {" ", "\n", "\t", "\r", "\f"}

\* \w of the module re.
IsWord(ch) ==
    ch \in {"a", "b", "c", "d", "e", "f", "g", "h", "i", "j", "k", "l", "m",
            "n", "o", "p", "q", "r", "s", "t", "u", "v", "w", "x", "y", "z",
            "A", "B", "C", "D", "E", "F", "G", "H", "I", "J", "K", "L", "M",
            "N", "O", "P", "Q", "R", "S", "T", "U", "V", "W", "X", "Y", "Z",
            "0", "1", "2", "3", "4", "5", "6", "7", "8", "9", "_"}

startswith(s, prefix) ==
    Len(s) >= Len(prefix) /\ SubSeq(s, 1, Len(prefix)) = prefix

endswith(s, suffix) ==
    Len(s) >= Len(suffix) /\ SubSeq(s, Len(s) - Len(suffix) + 1, Len(s)) = suffix

\* s.rstrip(chars) for the set chars of characters.
RECURSIVE rstrip_chars(_, _)
rstrip_chars(s, chars) ==
    IF s # "" /\ Chr(s, Len(s)) \in chars
    THEN rstrip_chars(SubSeq(s, 1, Len(s) - 1), chars)
    ELSE s

\* s.lstrip(chars) for the set chars of characters.
RECURSIVE lstrip_chars(_, _)
lstrip_chars(s, chars) ==
    IF s # "" /\ Chr(s, 1) \in chars
    THEN lstrip_chars(SubSeq(s, 2, Len(s)), chars)
    ELSE s

Whitespace == {" ", "\n", "\t", "\r", "\f"}
rstrip(s) == rstrip_chars(s, Whitespace)
lstrip(s) == lstrip_chars(s, Whitespace)
strip(s) == lstrip(rstrip(s))

\* The number of leading blanks of a line.
RECURSIVE indentation(_)
indentation(line) ==
    IF line # "" /\ Chr(line, 1) = " "
    THEN 1 + indentation(SubSeq(line, 2, Len(line)))
    ELSE 0

\* The index of the first "\n" of s from position i on, 0 when there is none.
RECURSIVE find_newline(_, _)
find_newline(s, i) ==
    IF i > Len(s) THEN 0
    ELSE IF Chr(s, i) = "\n" THEN i
    ELSE find_newline(s, i + 1)

\* s.split("\n"): the list of the parts between the newlines.
RECURSIVE split(_)
split(s) ==
    LET n == find_newline(s, 1)
    IN  IF n = 0 THEN <<s>>
        ELSE <<SubSeq(s, 1, n - 1)>> \o split(SubSeq(s, n + 1, Len(s)))

\* s.splitlines(): as split, without the empty part after a final newline.
splitlines(s) ==
    IF s = "" THEN <<>>
    ELSE IF endswith(s, "\n") THEN split(SubSeq(s, 1, Len(s) - 1))
    ELSE split(s)

\* sep.join(parts)
RECURSIVE join(_, _)
join(sep, parts) ==
    IF parts = <<>> THEN ""
    ELSE IF Len(parts) = 1 THEN parts[1]
    ELSE parts[1] \o sep \o join(sep, Tail(parts))

\* c * n
RECURSIVE repeat(_, _)
repeat(c, n) == IF n <= 0 THEN "" ELSE c \o repeat(c, n - 1)

\* The least indentation of the lines that hold more than whitespace,
\* -1 when there is no such line.
RECURSIVE margin(_)
margin(lines) ==
    IF lines = <<>> THEN -1
    ELSE LET rest == margin(Tail(lines))
         IN  IF strip(Head(lines)) = "" THEN rest
             ELSE IF rest = -1 \/ indentation(Head(lines)) < rest
                  THEN indentation(Head(lines))
                  ELSE rest

\* The list without its leading empty strings.
RECURSIVE drop_empty(_)
drop_empty(lines) ==
    IF lines # <<>> /\ Head(lines) = "" THEN drop_empty(Tail(lines)) ELSE lines

\* list(reversed(lines))
reversed(lines) == [i \in 1..Len(lines) |-> lines[Len(lines) + 1 - i]]

\* inspect.cleandoc: the first line loses its leading whitespace, the other
\* lines lose the least indentation of the non-blank ones among them, then
\* the empty lines at both ends are removed.
cleandoc(doc) ==
    LET lines == split(doc)
        m == margin(Tail(lines))
        cut == [i \in 1..Len(lines) |->
                   IF i = 1 THEN lstrip(lines[1])
                   ELSE IF m = -1 THEN lines[i]
                   ELSE SubSeq(lines[i], m + 1, Len(lines[i]))]
    IN  join("\n", drop_empty(reversed(drop_empty(reversed(cut)))))

\* textwrap.dedent: the lines of whitespace become empty, the other lines lose
\* their common indentation.
dedent(text) ==
    LET lines == split(text)
        m == margin(lines)
    IN  join("\n", [i \in 1..Len(lines) |->
                       IF strip(lines[i]) = "" THEN ""
                       ELSE SubSeq(lines[i], m + 1, Len(lines[i]))])

\* textwrap.indent(text, prefix): prefix goes before every line that holds
\* more than whitespace.
indent(text, prefix) ==
    LET lines == split(text)
    IN  join("\n", [i \in 1..Len(lines) |->
                       IF strip(lines[i]) = "" THEN lines[i]
                       ELSE prefix \o lines[i]])

-----------------------------------------------------------------------------
(* The classes and their class attributes.                                 *)

GoogleDocstringInheritor == "GoogleDocstringInheritor"
NumpyDocstringInheritor == "NumpyDocstringInheritor"
GoogleDocstringProcessor == "GoogleDocstringProcessor"
NumpyDocstringProcessor == "NumpyDocstringProcessor"

Classes == {GoogleDocstringInheritor, NumpyDocstringInheritor,
            GoogleDocstringProcessor, NumpyDocstringProcessor}

IsGoogle(c) == c \in {GoogleDocstringInheritor, GoogleDocstringProcessor}

\* The unformatted fall back description of an argument.
MISSING_ARG_DESCRIPTION == "The description is missing."

\* The section that documents the arguments.
ARGS_SECTION_NAME(c) == IF IsGoogle(c) THEN "Args" ELSE "Parameters"

\* The sections filtered with the signature.
ARGS_SECTION_NAMES(c) ==
    IF c = NumpyDocstringProcessor
    THEN {"Parameters", "Other Parameters"}
    ELSE {ARGS_SECTION_NAME(c)}

\* The names of the sections in their standard order; None is the summary.
SECTION_NAMES(c) ==
    <<None, ARGS_SECTION_NAME(c), "Returns", "Yields", "Receives",
      "Other Parameters", "Attributes", "Methods", "Raises", "Warns",
      "Warnings", "See Also", "Notes", "References", "Examples">>

\* The sections whose body is a dict of items.
SECTION_NAMES_WITH_ITEMS(c) ==
    CASE c = GoogleDocstringInheritor -> {"Args", "Attributes", "Methods"}
      [] c = NumpyDocstringInheritor ->
            {"Parameters", "OtherParameters", "Attributes", "Methods"}
      [] c = GoogleDocstringProcessor -> {"Args", "Attributes", "Methods"}
      [] c = NumpyDocstringProcessor ->
            {"Parameters", "Other Parameters", "Attributes", "Methods"}

\* The formatted text bound to an argument without description.
MISSING_ARG_TEXT(c) ==
    CASE c = GoogleDocstringInheritor -> ": " \o MISSING_ARG_DESCRIPTION
      [] c = NumpyDocstringInheritor -> "\n    " \o MISSING_ARG_DESCRIPTION
      [] c = GoogleDocstringProcessor -> ": " \o MISSING_ARG_DESCRIPTION
      [] c = NumpyDocstringProcessor -> ":\n" \o MISSING_ARG_DESCRIPTION

-----------------------------------------------------------------------------
(* The argument list of a signature.  spec is the result of                *)
(* inspect.getfullargspec: [args, varargs, varkw, kwonlyargs].             *)

\* all_args with the keyword-only parameters before the variadic-positional
\* one.
all_args_keyword_only_first(spec) ==
    LET args == IF ListHas(spec.args, "self")
                THEN ListRemove(spec.args, "self")
                ELSE spec.args
        varargs == IF spec.varargs # None THEN <<"*" \o spec.varargs>> ELSE <<>>
        varkw == IF spec.varkw # None THEN <<"**" \o spec.varkw>> ELSE <<>>
    IN  args \o spec.kwonlyargs \o varargs \o varkw

all_args(spec) ==
    LET args == IF ListHas(spec.args, "self")
                THEN ListRemove(spec.args, "self")
                ELSE spec.args
        varargs == IF spec.varargs # None THEN <<"*" \o spec.varargs>> ELSE <<>>
        varkw == IF spec.varkw # None THEN <<"**" \o spec.varkw>> ELSE <<>>
    IN  args \o varargs \o spec.kwonlyargs \o varkw

\* ordered_section of the _filter_args_section methods: for each argument in
\* turn, ordered_section[arg] = section_items.get(arg, missing_arg_text).
RECURSIVE ordered_section(_, _, _, _)
ordered_section(acc, args, section_items, missing_arg_text) ==
    IF args = <<>> THEN acc
    ELSE ordered_section(
             DictSet(acc, Head(args),
                     DictGetDefault(section_items, Head(args), missing_arg_text)),
             Tail(args), section_items, missing_arg_text)

\* BaseDocstringInheritor._filter_args_section, AbstractDocstringInheritor.
\* _filter_args_section and AbstractDocstringProcessor.
\* _inherit_section_items_with_args: the returned dict.
filter_args_section(missing_arg_text, section_items, spec) ==
    ordered_section(<<>>, all_args(spec), section_items, missing_arg_text)

\* BaseDocstringInheritor._filter_args_section calls _warn once per argument
\* of the signature, before it looks the argument up.
filter_args_section_warnings(section_name, spec) ==
    [i \in 1..Len(all_args(spec)) |->
        [section_path |-> <<section_name>>,
         msg |-> "The docstring for the argument '" \o all_args(spec)[i]
                 \o "' is missing."]]

-----------------------------------------------------------------------------
(* The merge of the parent sections into the child sections.               *)

\* for section_name in names: temp_sections[section_name] = source[...]
RECURSIVE CopySections(_, _, _)
CopySections(temp_sections, names, source) ==
    IF names = <<>> THEN temp_sections
    ELSE CopySections(
             DictSet(temp_sections, Head(names), DictGet(source, Head(names))),
             Tail(names), source)

\* copied_sections that copies every section of the parent after those of the
\* child.
copied_sections_parent_last(parent, child, iter1, iter2) ==
    CopySections(CopySections(<<>>, iter2, child), KeyList(parent), parent)

\* temp_sections after the sections only in the parent, then the sections of
\* the child, were copied.  The names come out of sets: iter1 and iter2 are
\* the orders in which the two sets are iterated.
copied_sections(parent, child, iter1, iter2) ==
    CopySections(CopySections(<<>>, iter1, parent), iter2, child)

\* merged_items that updates the items of the child with those of the parent.
merged_items_parent_wins(parent, child, section_name) ==
    DictBody(DictUpdate(DictGet(child, section_name).items,
                        DictGet(parent, section_name).items))

\* The sections with items common to parent and child are merged: the items
\* of the parent copied, then updated with the items of the child.
merged_items(parent, child, section_name) ==
    DictBody(DictUpdate(DictGet(parent, section_name).items,
                        DictGet(child, section_name).items))

\* reordered_sections that keeps the order of temp_sections.
reordered_sections_kept(temp_sections, section_names) == temp_sections

\* The standard sections in their standard order, then the other sections in
\* the order of temp_sections.
reordered_sections(temp_sections, section_names) ==
    LET present == SelectSeq(section_names,
                             LAMBDA n : DictHas(temp_sections, n))
        standard == [i \in 1..Len(present) |->
                        [k |-> present[i],
                         v |-> DictGet(temp_sections, present[i])]]
    IN  standard \o SelectSeq(temp_sections,
                              LAMBDA e : ~ListHas(section_names, e.k))

\* BaseDocstringInheritor._inherit_sections: the new content of
\* child_sections.
BaseDocstringInheritor_inherit_sections(c, parent, child, spec, iter1, iter2) ==
    LET args_section_name == ARGS_SECTION_NAME(c)
        common == KeySet(parent) \cap KeySet(child)
                     \cap SECTION_NAMES_WITH_ITEMS(c)
        temp1 == copied_sections(parent, child, iter1, iter2)
        temp2 == [i \in 1..Len(temp1) |->
                    IF temp1[i].k \in common
                    THEN [k |-> temp1[i].k,
                          v |-> merged_items(parent, child, temp1[i].k)]
                    ELSE temp1[i]]
        args_section ==
            filter_args_section(
                MISSING_ARG_TEXT(c),
                DictGetDefault(temp2, args_section_name, DictBody(<<>>)).items,
                spec)
        temp3 == IF args_section # <<>>
                 THEN DictSet(temp2, args_section_name, DictBody(args_section))
                 ELSE IF DictHas(temp2, args_section_name)
                      THEN DictDel(temp2, args_section_name)
                      ELSE temp2
    IN  reordered_sections(temp3, SECTION_NAMES(c))

\* AbstractDocstringInheritor._inherit_sections: the returned sections.
AbstractDocstringInheritor_inherit_sections(c, parent, child, spec, iter1, iter2) ==
    LET common == KeySet(parent) \cap KeySet(child)
                     \cap SECTION_NAMES_WITH_ITEMS(c)
        temp1 == copied_sections(parent, child, iter1, iter2)
        temp2 == [i \in 1..Len(temp1) |->
                    IF temp1[i].k \in common
                    THEN [k |-> temp1[i].k,
                          v |-> merged_items(parent, child, temp1[i].k)]
                    ELSE temp1[i]]
        temp3 == [i \in 1..Len(temp2) |->
                    IF temp2[i].k \in ARGS_SECTION_NAMES(c)
                    THEN [k |-> temp2[i].k,
                          v |-> DictBody(filter_args_section(
                                    MISSING_ARG_TEXT(c), temp2[i].v.items,
                                    spec))]
                    ELSE temp2[i]]
    IN  reordered_sections(temp3, SECTION_NAMES(c))

\* AbstractDocstringProcessor._inherit_sections: the returned sections.
AbstractDocstringProcessor_inherit_sections(c, parent, child, spec, iter1, iter2) ==
    LET common == KeySet(parent) \cap KeySet(child)
                     \cap SECTION_NAMES_WITH_ITEMS(c)
        temp1 == copied_sections(parent, child, iter1, iter2)
        temp2 == [i \in 1..Len(temp1) |->
                    IF temp1[i].k \in common
                    THEN [k |-> temp1[i].k,
                          v |-> IF temp1[i].k \in ARGS_SECTION_NAMES(c)
                                THEN DictBody(filter_args_section(
                                         MISSING_ARG_TEXT(c),
                                         merged_items(parent, child,
                                                      temp1[i].k).items,
                                         spec))
                                ELSE merged_items(parent, child, temp1[i].k)]
                    ELSE temp1[i]]
    IN  reordered_sections(temp2, SECTION_NAMES(c))

\* The _inherit_sections of the class c.
inherit_sections(c, parent, child, spec, iter1, iter2) ==
    CASE c = GoogleDocstringInheritor ->
            BaseDocstringInheritor_inherit_sections(c, parent, child, spec,
                                                    iter1, iter2)
      [] c = NumpyDocstringInheritor ->
            AbstractDocstringInheritor_inherit_sections(c, parent, child, spec,
                                                        iter1, iter2)
      [] OTHER ->
            AbstractDocstringProcessor_inherit_sections(c, parent, child, spec,
                                                        iter1, iter2)

-----------------------------------------------------------------------------
(* The renderers.                                                          *)

\* "\n".join(f"{key}{value}" for key, value in section_body.items())
joined_items(items) ==
    join("\n", [i \in 1..Len(items) |-> items[i].k \o items[i].v])

\* The text of a section body, the items joined when it is a dict.
body_text(section_body) ==
    IF section_body.kind = "dict"
    THEN joined_items(section_body.items)
    ELSE section_body.text

\* DocstringRenderer._render_section of the Google format.
Google_render_section(section_name, section_body) ==
    IF section_name = None THEN section_body.text
    ELSE section_name \o ":\n" \o indent(body_text(section_body), "    ")

\* NumpyDocstringInheritor._render_section
Numpy_render_section(section_name, section_body) ==
    IF section_name = None THEN section_body.text
    ELSE section_name \o "\n" \o repeat("-", Len(section_name)) \o "\n"
         \o body_text(section_body)

render_section(c, section_name, section_body) ==
    IF IsGoogle(c)
    THEN Google_render_section(section_name, section_body)
    ELSE Numpy_render_section(section_name, section_body)

\* _render_docstring without the empty summary line.
render_docstring_no_summary_line(c, sections) ==
    join("\n\n", [i \in 1..Len(sections) |->
                     render_section(c, sections[i].k, sections[i].v)])

\* AbstractDocstringInheritor._render_docstring
render_docstring(c, sections) ==
    IF sections = <<>> THEN ""
    ELSE LET rendered_sections ==
                 [i \in 1..Len(sections) |->
                     render_section(c, sections[i].k, sections[i].v)]
             rendered_text == join("\n\n", rendered_sections)
         IN  IF ~DictHas(sections, None)
             THEN "\n" \o rendered_text
             ELSE rendered_text

-----------------------------------------------------------------------------
(* The parsers.                                                            *)

\* The result (None, None) of _parse_one_section.
NoSection == [name |-> None, body |-> None]

\* AbstractDocstringInheritor._get_section_body: the lines of a body come in
\* reversed order, the empty ones at the end of the body are dropped.
Base_get_section_body(reversed_section_body_lines) ==
    join("\n", reversed(drop_empty(reversed_section_body_lines)))

\* DocstringParser._get_section_body of the Google format.
Google_get_section_body(reversed_section_body_lines) ==
    dedent(Base_get_section_body(reversed_section_body_lines))

get_section_body(c, reversed_section_body_lines) ==
    IF IsGoogle(c)
    THEN Google_get_section_body(reversed_section_body_lines)
    ELSE Base_get_section_body(reversed_section_body_lines)

\* The members of a list.
Range(list) == {list[i] : i \in 1..Len(list)}

\* _parse_one_section of the Google format without the condition on the
\* section name.
Google_parse_one_section_any_name(c, line1, line2_rstripped, reversed_section_body_lines) ==
    LET line1_rstripped == rstrip(line1)
    IN  IF /\ ~startswith(line1_rstripped, " ")
           /\ endswith(line1_rstripped, ":")
           /\ startswith(line2_rstripped, "  ")
        THEN [name |-> rstrip_chars(line1_rstripped, {" ", ":"}),
              body |-> get_section_body(
                           c, Append(reversed_section_body_lines,
                                     line2_rstripped))]
        ELSE NoSection

\* DocstringParser._parse_one_section of the Google format; on a match
\* line2_rstripped joins the body lines.
Google_parse_one_section(c, line1, line2_rstripped, reversed_section_body_lines) ==
    LET line1_rstripped == rstrip(line1)
    IN  IF /\ ~startswith(line1_rstripped, " ")
           /\ endswith(line1_rstripped, ":")
           /\ startswith(line2_rstripped, "  ")
           /\ strip(SubSeq(line1_rstripped, 1, Len(line1_rstripped) - 1))
                  \in Range(SECTION_NAMES(c))
        THEN [name |-> rstrip_chars(line1_rstripped, {" ", ":"}),
              body |-> get_section_body(
                           c, Append(reversed_section_body_lines,
                                     line2_rstripped))]
        ELSE NoSection

\* set(text)
CharSet(text) == {Chr(text, i) : i \in 1..Len(text)}

\* NumpyDocstringInheritor._parse_one_section
Numpy_parse_one_section(c, line1, line2_rstripped, reversed_section_body_lines) ==
    LET line1s == rstrip(line1)
        min_line_length == Len(line1s)
    IN  IF /\ Len(line2_rstripped) >= 3
           /\ CharSet(line2_rstripped) \in {{"-"}, {"="}}
           /\ \/ startswith(line2_rstripped, repeat("-", min_line_length))
              \/ startswith(line2_rstripped, repeat("=", min_line_length))
        THEN [name |-> line1s,
              body |-> get_section_body(c, reversed_section_body_lines)]
        ELSE NoSection

\* GoogleDocstringProcessor._parse_one_section: the name before the colon is
\* not compared with the section names.
Processor_Google_parse_one_section(c, line1, line2_rstripped, reversed_section_body_lines) ==
    LET line1s == rstrip(line1)
    IN  IF /\ ~startswith(line1s, " ")
           /\ endswith(line1s, ":")
           /\ startswith(line2_rstripped, "  ")
        THEN [name |-> rstrip_chars(line1s, {" ", ":"}),
              body |-> get_section_body(
                           c, Append(reversed_section_body_lines,
                                     line2_rstripped))]
        ELSE NoSection

parse_one_section(c, line1, line2_rstripped, reversed_section_body_lines) ==
    CASE c = GoogleDocstringInheritor ->
            Google_parse_one_section(c, line1, line2_rstripped,
                                     reversed_section_body_lines)
      [] c = GoogleDocstringProcessor ->
            Processor_Google_parse_one_section(c, line1, line2_rstripped,
                                               reversed_section_body_lines)
      [] OTHER ->
            Numpy_parse_one_section(c, line1, line2_rstripped,
                                    reversed_section_body_lines)

\* The number of "*" of text from position pos on.
RECURSIVE stars_at(_, _)
stars_at(text, pos) ==
    IF pos <= Len(text) /\ Chr(text, pos) = "*"
    THEN 1 + stars_at(text, pos + 1)
    ELSE 0

\* The number of word characters of text from position pos on.
RECURSIVE words_at(_, _)
words_at(text, pos) ==
    IF pos <= Len(text) /\ IsWord(Chr(text, pos))
    THEN 1 + words_at(text, pos + 1)
    ELSE 0

\* The length of the match of \**\w+ at position pos, 0 without match.
item_name_at(text, pos) ==
    LET stars == stars_at(text, pos)
        words == words_at(text, pos + stars)
    IN  IF words = 0 THEN 0 ELSE stars + words

\* (?:$|(?=\n\**\w+)) at position pos: the end of the text, or before its
\* final newline, or before a newline that an item name follows.
item_end_at(text, pos) ==
    \/ pos = Len(text) + 1
    \/ pos = Len(text) /\ Chr(text, pos) = "\n"
    \/ pos < Len(text) /\ Chr(text, pos) = "\n"
                       /\ item_name_at(text, pos + 1) > 0

\* The first position from pos on where the description (.*?) can end.
RECURSIVE description_end(_, _)
description_end(text, pos) ==
    IF item_end_at(text, pos) THEN pos ELSE description_end(text, pos + 1)

\* _SECTION_ITEMS_REGEX.findall(section_body) from position pos on, put in a
\* dict: (\**\w+)(.*?)(?:$|(?=\n\**\w+)) with the flag DOTALL.
RECURSIVE find_items(_, _, _)
find_items(items, section_body, pos) ==
    IF pos > Len(section_body) THEN items
    ELSE LET name_length == item_name_at(section_body, pos)
             end == description_end(section_body, pos + name_length)
         IN  IF name_length = 0
             THEN find_items(items, section_body, pos + 1)
             ELSE find_items(
                      DictSet(items,
                              SubSeq(section_body, pos, pos + name_length - 1),
                              SubSeq(section_body, pos + name_length, end - 1)),
                      section_body, end)

\* AbstractDocstringInheritor._parse_section_items
parse_section_items(section_body) == find_items(<<>>, section_body, 1)

\* The value stored for a parsed section.
section_value(c, section_name, section_body) ==
    IF section_name \in SECTION_NAMES_WITH_ITEMS(c)
    THEN DictBody(parse_section_items(section_body))
    ELSE StrBody(section_body)

\* The loop of _parse_sections over the pairs (line2, line1) =
\* (lines[i], lines[i - 1]), from the last pair to the first one.
RECURSIVE scan_lines(_, _, _, _, _)
scan_lines(c, lines, i, reversed_section_body_lines, reversed_sections) ==
    IF i < 2
    THEN [has_summary |-> TRUE,
          reversed_section_body_lines |-> reversed_section_body_lines,
          reversed_sections |-> reversed_sections]
    ELSE LET line2_rstripped == rstrip(lines[i])
             section == parse_one_section(c, lines[i - 1], line2_rstripped,
                                          reversed_section_body_lines)
             found == DictSet(reversed_sections, section.name,
                              section_value(c, section.name, section.body))
         IN  IF section # NoSection
             THEN IF i = 2
                  THEN [has_summary |-> FALSE,
                        reversed_section_body_lines |->
                            reversed_section_body_lines,
                        reversed_sections |-> found]
                  ELSE scan_lines(c, lines, i - 2, <<>>, found)
             ELSE scan_lines(c, lines, i - 1,
                             Append(reversed_section_body_lines,
                                    line2_rstripped),
                             reversed_sections)

\* _parse_sections raises IndexError at lines[0] when the docstring has only
\* whitespace.
parse_sections_raises(docstring) ==
    /\ docstring # None
    /\ docstring # ""
    /\ splitlines(cleandoc(docstring)) = <<>>

\* _parse_sections that leaves the sections in the order the loop found them,
\* from the last one to the first one.
parse_sections_bottom_up(c, docstring) ==
    IF docstring = None \/ docstring = "" THEN <<>>
    ELSE LET lines == splitlines(cleandoc(docstring))
             scanned == scan_lines(c, lines, Len(lines), <<>>, <<>>)
             summary ==
                 IF scanned.has_summary
                 THEN <<[k |-> None,
                         v |-> StrBody(get_section_body(
                                   c, Append(scanned.reversed_section_body_lines,
                                             lines[1])))]>>
                 ELSE <<>>
         IN  summary \o scanned.reversed_sections

\* AbstractDocstringInheritor._parse_sections, for a docstring on which it
\* does not raise.
parse_sections(c, docstring) ==
    IF docstring = None \/ docstring = "" THEN <<>>
    ELSE LET lines == splitlines(cleandoc(docstring))
             scanned == scan_lines(c, lines, Len(lines), <<>>, <<>>)
             summary ==
                 IF scanned.has_summary
                 THEN <<[k |-> None,
                         v |-> StrBody(get_section_body(
                                   c, Append(scanned.reversed_section_body_lines,
                                             lines[1])))]>>
                 ELSE <<>>
         IN  summary \o reversed(scanned.reversed_sections)

-----------------------------------------------------------------------------
(* The warnings about similar docstrings.                                  *)

\* The length of the longest common prefix of a from i on and b from j on.
RECURSIVE common_length(_, _, _, _)
common_length(a, i, b, j) ==
    IF i <= Len(a) /\ j <= Len(b) /\ Chr(a, i) = Chr(b, j)
    THEN 1 + common_length(a, i + 1, b, j + 1)
    ELSE 0

\* difflib.SequenceMatcher.find_longest_match over the whole of a and b: the
\* longest matching block <<i, j, size>>, the one that starts earliest in a
\* and then earliest in b.
find_longest_match(a, b) ==
    LET starts == (1..Len(a)) \X (1..Len(b))
        size(p) == common_length(a, p[1], b, p[2])
        best == CHOOSE p \in starts :
                    \A q \in starts :
                        \/ size(q) < size(p)
                        \/ /\ size(q) = size(p)
                           /\ \/ p[1] < q[1]
                              \/ p[1] = q[1] /\ p[2] <= q[2]
    IN  <<best[1], best[2], size(best)>>

\* The sum of the sizes of SequenceMatcher(None, a, b).get_matching_blocks():
\* the longest matching block, then the blocks on its left and on its right.
RECURSIVE matching_size(_, _)
matching_size(a, b) ==
    IF a = "" \/ b = "" THEN 0
    ELSE LET match == find_longest_match(a, b)
             i == match[1]
             j == match[2]
             size == match[3]
         IN  IF size = 0 THEN 0
             ELSE size
                  + matching_size(SubSeq(a, 1, i - 1), SubSeq(b, 1, j - 1))
                  + matching_size(SubSeq(a, i + size, Len(a)),
                                  SubSeq(b, j + size, Len(b)))

\* SequenceMatcher(None, a, b).ratio() as <<numerator, denominator>>:
\* 2.0 * matches / (len(a) + len(b)), 1.0 for two empty texts.
ratio(a, b) ==
    IF Len(a) + Len(b) = 0 THEN <<1, 1>>
    ELSE <<2 * matching_size(a, b), Len(a) + Len(b)>>

\* x > y for two fractions of positive denominators.
greater(x, y) == x[1] * y[2] > y[1] * x[2]

\* A warning whatever the ratio is.
warn_similar_section_any_ratio(parent_text, child_text, section_path) ==
    <<[section_path |->
           [i \in 1..Len(section_path) |->
               IF i = 1 /\ section_path[i] = None
               THEN "Summary"
               ELSE section_path[i]],
       msg |-> "the docstrings have a similarity ration of",
       ratio |-> ratio(parent_text, child_text),
       parent_doc |-> indent(parent_text, "    "),
       child_doc |-> indent(child_text, "    ")]>>

\* BaseDocstringInheritor._warn_similar_section: the warnings issued.
warn_similar_section(parent_text, child_text, section_path) ==
    IF greater(ratio(parent_text, child_text), SIMILARITY_RATIO)
    THEN <<[section_path |->
               [i \in 1..Len(section_path) |->
                   IF i = 1 /\ section_path[i] = None
                   THEN "Summary"
                   ELSE section_path[i]],
            msg |-> "the docstrings have a similarity ration of",
            ratio |-> ratio(parent_text, child_text),
            parent_doc |-> indent(parent_text, "    "),
            child_doc |-> indent(child_text, "    ")]>>
    ELSE <<>>

\* The call of _warn_similar_sections on the items of a section, from the
\* i-th item of the child on: an item that the parent has too and that is
\* named as a section with items is taken for a section, and the call on its
\* description raises AttributeError.
RECURSIVE warn_similar_items(_, _, _, _, _, _)
warn_similar_items(c, section_name, parent_items, child_items, i, issued) ==
    IF i > Len(child_items) THEN [warnings |-> issued, raised |-> FALSE]
    ELSE LET item_name == child_items[i].k
         IN  IF ~DictHas(parent_items, item_name)
             THEN warn_similar_items(c, section_name, parent_items,
                                     child_items, i + 1, issued)
             ELSE IF item_name \in SECTION_NAMES_WITH_ITEMS(c)
             THEN [warnings |-> issued, raised |-> TRUE]
             ELSE warn_similar_items(
                      c, section_name, parent_items, child_items, i + 1,
                      issued \o warn_similar_section(
                                    DictGet(parent_items, item_name),
                                    child_items[i].v,
                                    <<section_name, item_name>>))

\* BaseDocstringInheritor._warn_similar_sections from the i-th section of the
\* child on: the warnings issued and whether the call raised.
RECURSIVE warn_similar_sections(_, _, _, _, _)
warn_similar_sections(c, parent, child, i, issued) ==
    IF SIMILARITY_RATIO[1] = 0 \/ i > Len(child)
    THEN [warnings |-> issued, raised |-> FALSE]
    ELSE LET section_name == child[i].k
         IN  IF ~DictHas(parent, section_name)
             THEN warn_similar_sections(c, parent, child, i + 1, issued)
             ELSE IF section_name \in SECTION_NAMES_WITH_ITEMS(c)
             THEN LET items == warn_similar_items(
                                   c, section_name,
                                   DictGet(parent, section_name).items,
                                   child[i].v.items, 1, issued)
                  IN  IF items.raised THEN items
                      ELSE warn_similar_sections(c, parent, child, i + 1,
                                                 items.warnings)
             ELSE warn_similar_sections(
                      c, parent, child, i + 1,
                      issued \o warn_similar_section(
                                    DictGet(parent, section_name).text,
                                    child[i].v.text, <<section_name>>))

-----------------------------------------------------------------------------
(* The section marker.                                                     *)

\* The text that stands for "inherit this entry from the parent".
INHERIT_SECTION_MARKER == "__inherit_section_doc__"

\* The items without those whose description is the marker.
filtered_items(items) ==
    SelectSeq(items, LAMBDA item : strip(item.v) # INHERIT_SECTION_MARKER)

\* _filters_sections(child_sections): the prose sections and the items whose
\* text is the marker are removed from the sections of the child.
filters_sections(child) ==
    LET kept == SelectSeq(child, LAMBDA section :
                    section.v.kind = "dict"
                    \/ strip(section.v.text) # INHERIT_SECTION_MARKER)
    IN  [i \in 1..Len(kept) |->
            IF kept[i].v.kind = "dict"
            THEN [k |-> kept[i].k,
                  v |-> DictBody(filtered_items(kept[i].v.items))]
            ELSE kept[i]]

-----------------------------------------------------------------------------
(* The inputs explored.                                                    *)

\* The sequences without repetition of at most n members of S.
InjSeqs(S, n) ==
    UNION {{s \in [1..m -> S] : \A i, j \in 1..m : s[i] = s[j] => i = j} :
           m \in 0..n}

\* The signatures: the names of a signature are pairwise distinct.
ArgNames == {"self", "a", "b"}
Signatures ==
    [args : InjSeqs(ArgNames, MaxArgs), varargs : {None, "v"},
     varkw : {None, "k"}, kwonlyargs : {<<>>, <<"c">>}]
PlainSignatures ==
    [args : {<<>>, <<"a">>}, varargs : {None}, varkw : {None},
     kwonlyargs : {<<>>}]

\* The description of an item as the parser of the class returns it: the rest
\* of the line of the name in Google, the indented next line in Numpy.
ItemDescription(c, text) ==
    IF IsGoogle(c) THEN ": " \o text ELSE "\n    " \o text

\* The dicts of at most MaxItems items, written by the side "parent" or
\* "child".
ItemDicts(c, side, names) ==
    {[i \in 1..Len(s) |->
        [k |-> s[i], v |-> ItemDescription(c, side \o " " \o s[i])]] :
     s \in InjSeqs(names, MaxItems)}

ArgItemNames == {"a", "*v"}
MethodItemNames == {"f", "g"}

\* Section Models that hold at most the arguments section.
ArgsSectionModels(c, side) ==
    {<<>>} \cup
    {<<[k |-> ARGS_SECTION_NAME(c), v |-> DictBody(items)]>> :
     items \in ItemDicts(c, side, ArgItemNames)}

\* The bodies that the parser of class c can return for a section name.
SectionBodies(c, side, name) ==
    IF name \in SECTION_NAMES_WITH_ITEMS(c)
    THEN {DictBody(items) : items \in ItemDicts(c, side, MethodItemNames)}
    ELSE {StrBody(side \o " text")}

\* Section Models of at most MaxSections sections among the summary, a
\* standard section with items and two non-standard sections.
SectionKeys == {None, "Methods", "Todo", "Zeta"}
RECURSIVE ModelsOver(_, _, _)
ModelsOver(c, side, keys) ==
    IF keys = <<>> THEN {<<>>}
    ELSE {<<[k |-> Head(keys), v |-> b]>> \o m :
          b \in SectionBodies(c, side, Head(keys)),
          m \in ModelsOver(c, side, Tail(keys))}
SectionModels(c, side) ==
    UNION {ModelsOver(c, side, keys) : keys \in InjSeqs(SectionKeys, MaxSections)}

\* A callable without docstring and with the signature spec.
Func(doc, spec) == [doc |-> doc, spec |-> spec]

-----------------------------------------------------------------------------
(* The merge step: parent_sections and child_sections were parsed, the     *)
(* _inherit_sections of the class runs on them.                            *)

InitMergeOf(parents, children, signatures) ==
    /\ cls \in Classes
    /\ parent_doc = None
    /\ child_func \in {Func(None, spec) : spec \in signatures}
    /\ parent_sections \in parents[cls]
    /\ child_sections \in children[cls]
    /\ child_sections_in = child_sections
    /\ returned = <<>>
    /\ warnings = <<>>
    /\ rendered = <<>>
    /\ attr_name = None
    /\ mro_classes = <<>>
    /\ mro_index = 0
    /\ visited = <<>>
    /\ class_doc = None
    /\ init_in_class = FALSE
    /\ init_methods = <<>>
    /\ init_method = 0
    /\ old_init_doc = None
    /\ environ = None
    /\ SIMILARITY_RATIO = <<9, 10>>
    /\ pc = "parsed"

\* The parents and children differ in their arguments sections, the
\* signatures in every part.
InitArgs ==
    InitMergeOf([c \in Classes |-> ArgsSectionModels(c, "parent")],
                [c \in Classes |-> ArgsSectionModels(c, "child")],
                Signatures)

\* The parents and children differ in their sections.
InitSections ==
    InitMergeOf([c \in Classes |-> SectionModels(c, "parent")],
                [c \in Classes |-> SectionModels(c, "child")],
                PlainSignatures)

\* A merge that updates the items of the parent with those of the child in
\* the sections with items common to both, without copying them first.
InheritSections_updating_the_parent_items ==
    /\ pc = "parsed"
    /\ \E iter1 \in SetIterations(KeySet(parent_sections) \ KeySet(child_sections)),
          iter2 \in SetIterations(KeySet(child_sections)) :
          LET new_child_sections ==
                  inherit_sections(cls, parent_sections, child_sections,
                                   child_func.spec, iter1, iter2)
          IN  IF cls = GoogleDocstringInheritor
              THEN /\ child_sections' = new_child_sections
                   /\ returned' = returned
                   /\ warnings' = warnings \o
                          filter_args_section_warnings(ARGS_SECTION_NAME(cls),
                                                       child_func.spec)
              ELSE /\ returned' = <<new_child_sections>>
                   /\ UNCHANGED <<child_sections, warnings>>
    /\ parent_sections' =
           [i \in 1..Len(parent_sections) |->
               IF /\ parent_sections[i].k \in SECTION_NAMES_WITH_ITEMS(cls)
                  /\ DictHas(child_sections, parent_sections[i].k)
               THEN [k |-> parent_sections[i].k,
                     v |-> DictBody(DictUpdate(
                               parent_sections[i].v.items,
                               DictGet(child_sections,
                                       parent_sections[i].k).items))]
               ELSE parent_sections[i]]
    /\ pc' = "merged"
    /\ UNCHANGED class_vars
    /\ UNCHANGED module_vars
    /\ UNCHANGED <<cls, parent_doc, child_func, child_sections_in, rendered>>

\* _inherit_sections(parent_sections, child_sections): BaseDocstringInheritor
\* clears and refills child_sections and warns through _filter_args_section,
\* the two older classes return new sections and leave child_sections alone.
InheritSections ==
    /\ pc = "parsed"
    /\ \E iter1 \in SetIterations(KeySet(parent_sections) \ KeySet(child_sections)),
          iter2 \in SetIterations(KeySet(child_sections)) :
          LET new_child_sections ==
                  inherit_sections(cls, parent_sections, child_sections,
                                   child_func.spec, iter1, iter2)
          IN  IF cls = GoogleDocstringInheritor
              THEN /\ child_sections' = new_child_sections
                   /\ returned' = returned
                   /\ warnings' = warnings \o
                          filter_args_section_warnings(ARGS_SECTION_NAME(cls),
                                                       child_func.spec)
              ELSE /\ returned' = <<new_child_sections>>
                   /\ UNCHANGED <<child_sections, warnings>>
    /\ pc' = "merged"
    /\ UNCHANGED class_vars
    /\ UNCHANGED module_vars
    /\ UNCHANGED <<cls, parent_doc, child_func, parent_sections,
                   child_sections_in, rendered>>

\* The sections that the merge produced.
merged_sections ==
    IF cls = GoogleDocstringInheritor THEN child_sections ELSE returned[1]

Next == InheritSections

Init == InitArgs \/ InitSections

Spec == Init /\ [][Next]_vars

-----------------------------------------------------------------------------
(* Properties of the merge.                                                *)

\* The classes of the package docstring_inheritors.
InheritorClasses == {GoogleDocstringInheritor, NumpyDocstringInheritor}

\* The argument list of a signature as the specification words it: the
\* positional parameters without the self-reference, "*" and the
\* variadic-positional name, the keyword-only parameters, "**" and the
\* variadic-keyword name.
SignatureArguments(spec) ==
    SelectSeq(spec.args, LAMBDA a : a # "self")
    \o (IF spec.varargs = None THEN <<>> ELSE <<"*" \o spec.varargs>>)
    \o spec.kwonlyargs
    \o (IF spec.varkw = None THEN <<>> ELSE <<"**" \o spec.varkw>>)

HasArgsSection(sections) == DictHas(sections, ARGS_SECTION_NAME(cls))
ArgsItems(sections) == DictGet(sections, ARGS_SECTION_NAME(cls)).items

PlaceholderOfSpecification(c) ==
    IF IsGoogle(c)
    THEN ": The description is missing."
    ELSE "\n    The description is missing."

\* C2: in the merged arguments section the description of a signature
\* parameter is the one of the child if the child documents the parameter,
\* else the one of the parent if the parent documents it, else the
\* placeholder of the dialect.
C2_DescriptionOfChildThenParentThenPlaceholder ==
    (pc = "merged" /\ HasArgsSection(merged_sections)) =>
    \A i \in 1..Len(SignatureArguments(child_func.spec)) :
        LET p == SignatureArguments(child_func.spec)[i]
            child_has == /\ HasArgsSection(child_sections_in)
                         /\ DictHas(ArgsItems(child_sections_in), p)
            parent_has == /\ HasArgsSection(parent_sections)
                          /\ DictHas(ArgsItems(parent_sections), p)
        IN  DictHas(ArgsItems(merged_sections), p) =>
            DictGet(ArgsItems(merged_sections), p) =
                IF child_has THEN DictGet(ArgsItems(child_sections_in), p)
                ELSE IF parent_has THEN DictGet(ArgsItems(parent_sections), p)
                ELSE PlaceholderOfSpecification(cls)

\* C3: after the merge of a docstring inheritor the arguments section is
\* present if and only if the signature has at least one argument, whatever
\* the parent and the child contained.
C3_ArgsSectionIffSignatureHasArguments ==
    (pc = "merged" /\ cls \in InheritorClasses)
    => (HasArgsSection(merged_sections)
        <=> SignatureArguments(child_func.spec) # <<>>)

\* C4: for a section key other than the arguments section, the merge gives
\* the value of the parent when only the parent has the key, the value of the
\* child when only the child has it, the value of the child when both have it
\* and it is a prose section, and no key that neither has.
C4_SectionsAreCopied ==
    pc = "merged" =>
    \A key \in (KeySet(parent_sections) \cup KeySet(child_sections_in)
                \cup KeySet(merged_sections)) \ ARGS_SECTION_NAMES(cls) :
        LET in_parent == DictHas(parent_sections, key)
            in_child == DictHas(child_sections_in, key)
        IN  /\ (in_parent /\ ~in_child) =>
                /\ DictHas(merged_sections, key)
                /\ DictGet(merged_sections, key) = DictGet(parent_sections, key)
            /\ (in_child /\ ~in_parent) =>
                /\ DictHas(merged_sections, key)
                /\ DictGet(merged_sections, key)
                     = DictGet(child_sections_in, key)
            /\ (in_parent /\ in_child
                  /\ key \notin SECTION_NAMES_WITH_ITEMS(cls)) =>
                /\ DictHas(merged_sections, key)
                /\ DictGet(merged_sections, key)
                     = DictGet(child_sections_in, key)
            /\ (~in_parent /\ ~in_child) => ~DictHas(merged_sections, key)

\* A merge where one prose section is only in the parent, one only in the
\* child, and the result holds both.
C4_Witness ==
    /\ pc = "merged"
    /\ KeyList(parent_sections) = <<"Todo", None>>
    /\ KeyList(child_sections_in) = <<None, "Zeta">>
    /\ DictGet(merged_sections, None) = StrBody("child text")
    /\ DictGet(merged_sections, "Todo") = StrBody("parent text")
    /\ DictGet(merged_sections, "Zeta") = StrBody("child text")

\* C5: for an item section other than the arguments section that the parent
\* and the child both have, the merged items are the items of the parent in
\* the order of the parent, then the items only of the child in the order of
\* the child, and an item of both carries the description of the child.
C5_ItemsAreOverlaid ==
    pc = "merged" =>
    \A key \in (KeySet(parent_sections) \cap KeySet(child_sections_in)
                \cap SECTION_NAMES_WITH_ITEMS(cls)) \ ARGS_SECTION_NAMES(cls) :
        LET parent_items == DictGet(parent_sections, key).items
            child_items == DictGet(child_sections_in, key).items
        IN  /\ DictHas(merged_sections, key)
            /\ DictGet(merged_sections, key).kind = "dict"
            /\ LET merged == DictGet(merged_sections, key).items
               IN  /\ KeyList(merged) =
                        KeyList(parent_items) \o
                        SelectSeq(KeyList(child_items),
                                  LAMBDA n : ~DictHas(parent_items, n))
                   /\ \A n \in KeySet(merged) :
                        DictGet(merged, n) =
                            IF DictHas(child_items, n)
                            THEN DictGet(child_items, n)
                            ELSE DictGet(parent_items, n)

\* A merge of the Methods of a parent that documents f and of a child that
\* documents g then f.
C5_Witness ==
    /\ pc = "merged"
    /\ DictHas(parent_sections, "Methods")
    /\ DictHas(child_sections_in, "Methods")
    /\ KeyList(DictGet(parent_sections, "Methods").items) = <<"f">>
    /\ KeyList(DictGet(child_sections_in, "Methods").items) = <<"g", "f">>
    /\ KeyList(DictGet(merged_sections, "Methods").items) = <<"f", "g">>
    /\ DictGet(DictGet(merged_sections, "Methods").items, "f")
         = DictGet(DictGet(child_sections_in, "Methods").items, "f")

\* The position of a section name in the standard order, 0 when it has none.
StandardRank(name) ==
    IF ListHas(SECTION_NAMES(cls), name)
    THEN CHOOSE i \in 1..Len(SECTION_NAMES(cls)) : SECTION_NAMES(cls)[i] = name
    ELSE 0

\* C6: the keys of a merge result come with the standard section names
\* first, in the standard order, and every other key after them.
C6_StandardSectionsFirstAndOrdered ==
    pc = "merged" =>
    LET keys == KeyList(merged_sections)
    IN  \A i, j \in 1..Len(keys) :
            (i < j /\ StandardRank(keys[j]) # 0) =>
                /\ StandardRank(keys[i]) # 0
                /\ StandardRank(keys[i]) < StandardRank(keys[j])

\* A merge whose inputs list a non-standard section before the standard
\* ones, and the standard ones against the standard order.
C6_Witness ==
    /\ pc = "merged"
    /\ KeyList(parent_sections) = <<"Todo", "Methods">>
    /\ KeyList(child_sections_in) = <<"Zeta", None>>
    /\ child_func.spec.args = <<"a">>
    /\ Len(merged_sections) = 5
    /\ SubSeq(KeyList(merged_sections), 1, 3)
         = <<None, ARGS_SECTION_NAME(cls), "Methods">>

-----------------------------------------------------------------------------
(* The round trip: a Section Model is rendered, the text is parsed, the    *)
(* parsed sections are rendered again.                                     *)

\* The keys of the rendered models, in the order a parser finds them: the
\* summary, the arguments, a prose section, an item section and a
\* non-standard section with a name of two letters.
RenderedKeys(c) == <<None, ARGS_SECTION_NAME(c), "Returns", "Methods", "Zz">>

\* The increasing sequences of at most n indices among 1..m.
IncreasingSeqs(m, n) ==
    {s \in UNION {[1..l -> 1..m] : l \in 0..n} :
        \A i, j \in 1..Len(s) : i < j => s[i] < s[j]}

\* The bodies of the rendered models.
RenderedBodies(c, name) ==
    IF name = None THEN {StrBody("Sum"), StrBody("Sum\n\nMore text")}
    ELSE IF name = ARGS_SECTION_NAME(c)
    THEN {DictBody(items) : items \in ItemDicts(c, "child", ArgItemNames)}
    ELSE IF name = "Methods"
    THEN {DictBody(items) : items \in ItemDicts(c, "child", MethodItemNames)}
    ELSE IF name = "Returns" THEN {StrBody("value"), StrBody("one\n\ntwo")}
    ELSE {StrBody("z text")}

RECURSIVE RenderedModelsOver(_, _)
RenderedModelsOver(c, keys) ==
    IF keys = <<>> THEN {<<>>}
    ELSE {<<[k |-> Head(keys), v |-> b]>> \o m :
          b \in RenderedBodies(c, Head(keys)),
          m \in RenderedModelsOver(c, Tail(keys))}

\* Section Models of at most MaxSections sections: each key once, the item
\* names of a section distinct, the summary first and in prose.
RenderedModels(c) ==
    UNION {RenderedModelsOver(c, [i \in 1..Len(s) |-> RenderedKeys(c)[s[i]]]) :
           s \in IncreasingSeqs(Len(RenderedKeys(c)), MaxSections)}

InitRoundTrip ==
    /\ cls \in {GoogleDocstringInheritor, NumpyDocstringInheritor}
    /\ parent_doc = None
    /\ child_func = Func(None, [args |-> <<>>, varargs |-> None,
                                varkw |-> None, kwonlyargs |-> <<>>])
    /\ parent_sections = <<>>
    /\ child_sections \in RenderedModels(cls)
    /\ child_sections_in = child_sections
    /\ returned = <<>>
    /\ warnings = <<>>
    /\ rendered = <<>>
    /\ attr_name = None
    /\ mro_classes = <<>>
    /\ mro_index = 0
    /\ visited = <<>>
    /\ class_doc = None
    /\ init_in_class = FALSE
    /\ init_methods = <<>>
    /\ init_method = 0
    /\ old_init_doc = None
    /\ environ = None
    /\ SIMILARITY_RATIO = <<9, 10>>
    /\ pc = "sections"

\* _render_docstring(child_sections)
RenderDocstring ==
    /\ pc \in {"sections", "parsed again"}
    /\ rendered' = Append(rendered, render_docstring(cls, child_sections))
    /\ pc' = IF pc = "sections" THEN "rendered" ELSE "rendered again"
    /\ UNCHANGED class_vars
    /\ UNCHANGED module_vars
    /\ UNCHANGED <<cls, parent_doc, child_func, parent_sections,
                   child_sections, child_sections_in, returned, warnings>>

\* child_sections = _parse_sections(the docstring rendered last)
ParseSections ==
    /\ pc = "rendered"
    /\ IF parse_sections_raises(rendered[Len(rendered)])
       THEN /\ pc' = "raised"
            /\ UNCHANGED child_sections
       ELSE /\ pc' = "parsed again"
            /\ child_sections' = parse_sections(cls, rendered[Len(rendered)])
    /\ UNCHANGED class_vars
    /\ UNCHANGED module_vars
    /\ UNCHANGED <<cls, parent_doc, child_func, parent_sections,
                   child_sections_in, returned, warnings, rendered>>

NextRoundTrip == RenderDocstring \/ ParseSections

SpecRoundTrip == InitRoundTrip /\ [][NextRoundTrip]_vars

-----------------------------------------------------------------------------
(* Properties of the renderers and of the round trip.                      *)

\* The sum of the lengths of the first n texts, each counted with a
\* separator of two characters.
RECURSIVE LengthBefore(_, _)
LengthBefore(texts, n) ==
    IF n = 0 THEN 0 ELSE LengthBefore(texts, n - 1) + Len(texts[n]) + 2

\* text is the texts joined by one blank line, after prefix characters.
JoinedByOneBlankLine(text, texts, prefix) ==
    /\ Len(text) = prefix + LengthBefore(texts, Len(texts)) - 2
    /\ \A i \in 1..Len(texts) :
          LET start == prefix + LengthBefore(texts, i - 1) + 1
          IN  /\ SubSeq(text, start, start + Len(texts[i]) - 1) = texts[i]
              /\ i < Len(texts) =>
                    SubSeq(text, start + Len(texts[i]),
                           start + Len(texts[i]) + 1) = "\n\n"

\* C8: for every well-formed Section Model S and each dialect,
\* render(parse(render(S))) equals render(S), and parse(render(S)) has the
\* keys of S in the same order with the same prose bodies and the same items.
C8_RoundTripIsTheIdentity ==
    /\ pc # "raised"
    /\ pc \in {"parsed again", "rendered again"} =>
          child_sections = child_sections_in
    /\ pc = "rendered again" => rendered[2] = rendered[1]

\* C9: the rendering of an empty Section Model is the empty text; the
\* rendering of another one is the renderings of its sections in key order,
\* joined by exactly one blank line, after exactly one newline if and only if
\* the model has no summary key.
C9_RenderJoinsTheSections ==
    pc \in {"rendered", "rendered again"} =>
        LET text == rendered[Len(rendered)]
            texts == [i \in 1..Len(child_sections) |->
                         render_section(cls, child_sections[i].k,
                                        child_sections[i].v)]
        IN  IF child_sections = <<>> THEN text = ""
            ELSE IF DictHas(child_sections, None)
            THEN JoinedByOneBlankLine(text, texts, 0)
            ELSE /\ Chr(text, 1) = "\n"
                 /\ JoinedByOneBlankLine(text, texts, 1)

C9_Witness ==
    /\ pc = "rendered"
    /\ Len(child_sections) >= 2
    /\ ~DictHas(child_sections, None)

-----------------------------------------------------------------------------
(* The initialisation of the module inheritor: the similarity ratio.       *)

\* The values of DOCSTRING_INHERITANCE_SIMILARITY_RATIO explored; None is
\* the variable that is not set.
EnvironValues == {None, "0", "0.5", "0.95", "1", " 1 ", "1.5", "-0.1", "", "x",
                  "0.5.1"}

DecimalDigits == "0123456789"

IsDecimalDigit(ch) == \E d \in 1..10 : Chr(DecimalDigits, d) = ch

DecimalDigitValue(ch) == (CHOOSE d \in 1..10 : Chr(DecimalDigits, d) = ch) - 1

\* The integer that the digits of a text write, the other characters left out.
RECURSIVE DecimalValue(_, _)
DecimalValue(text, value) ==
    IF text = "" THEN value
    ELSE DecimalValue(
             SubSeq(text, 2, Len(text)),
             IF IsDecimalDigit(Chr(text, 1))
             THEN 10 * value + DecimalDigitValue(Chr(text, 1))
             ELSE value)

RECURSIVE PowerOfTen(_)
PowerOfTen(n) == IF n = 0 THEN 1 ELSE 10 * PowerOfTen(n - 1)

\* float(text) for a text in decimal notation: blanks around the number are
\* skipped, then come a sign or none, and digits with one point or none; any
\* other text among those explored raises ValueError.  The value is
\* <<numerator, denominator>>.
float(text) ==
    LET number == strip(text)
        signed == number # "" /\ Chr(number, 1) \in {"+", "-"}
        body == IF signed THEN SubSeq(number, 2, Len(number)) ELSE number
        points == {i \in 1..Len(body) : Chr(body, i) = "."}
        digits == {i \in 1..Len(body) : IsDecimalDigit(Chr(body, i))}
        decimals == IF points = {} THEN 0
                    ELSE Len(body) - (CHOOSE i \in points : TRUE)
        sign == IF signed /\ Chr(number, 1) = "-" THEN -1 ELSE 1
    IN  IF Cardinality(points) <= 1 /\ digits # {}
           /\ digits \cup points = 1..Len(body)
        THEN [raised |-> FALSE,
              value |-> <<sign * DecimalValue(body, 0), PowerOfTen(decimals)>>]
        ELSE [raised |-> TRUE, value |-> <<0, 1>>]

\* float(os.environ.get("DOCSTRING_INHERITANCE_SIMILARITY_RATIO", 0.0))
environ_SIMILARITY_RATIO(env) ==
    IF env = None THEN [raised |-> FALSE, value |-> <<0, 1>>] ELSE float(env)

\* 0 <= x <= 1 for a fraction of positive denominator.
in_unit_interval(x) == 0 <= x[1] /\ x[1] <= x[2]

\* SIMILARITY_RATIO = 0.9
HARD_CODED_SIMILARITY_RATIO == <<9, 10>>

\* The statements of the module at import: the ratio is read from the
\* environment, then assigned 0.9, then checked to be in [0,1].
ImportInheritor ==
    /\ pc = "import"
    /\ \E read \in {environ_SIMILARITY_RATIO(environ)} :
          IF read.raised
          THEN /\ pc' = "ValueError"
               /\ UNCHANGED SIMILARITY_RATIO
          ELSE \E value \in {HARD_CODED_SIMILARITY_RATIO} :
               IF ~in_unit_interval(value)
               THEN /\ pc' = "ValueError"
                    /\ SIMILARITY_RATIO' = value
               ELSE /\ pc' = "inherit"
                    /\ SIMILARITY_RATIO' = value
    /\ UNCHANGED environ
    /\ UNCHANGED class_vars
    /\ UNCHANGED <<cls, parent_doc, child_func, parent_sections,
                   child_sections, child_sections_in, returned, warnings,
                   rendered>>

-----------------------------------------------------------------------------
(* inherit(parent_doc, child_func): the docstring of a function inherits   *)
(* from the docstring of a parent.                                         *)

\* The docstrings explored: summaries that are close or not, two of them at
\* a ratio of 0.9, arguments,
\* a prose section, descriptions made of the marker, a text of whitespace.
Docstrings(c) ==
    IF IsGoogle(c)
    THEN {"Sum", "Summary", "abcdefghij", "abcdefghiX",
          "Sum\n\nArgs:\n    a: the a\n    *v: the v",
          "Other\n\nArgs:\n    a: an a\n\nReturns:\n    value",
          "Sum\n\nArgs:\n    a: an a",
          "Sum\n\nArgs:\n    a: __inherit_section_doc__\n\nReturns:\n    __inherit_section_doc__",
          " "}
    ELSE {"Sum", "Summary", "abcdefghij", "abcdefghiX",
          "Sum\n\nParameters\n----------\na\n    the a\n*v\n    the v",
          "Other\n\nParameters\n----------\na\n    an a\n\nReturns\n-------\nvalue",
          "Sum\n\nParameters\n----------\na\n    an a",
          "Sum\n\nParameters\n----------\na\n    __inherit_section_doc__\n\nReturns\n-------\n__inherit_section_doc__",
          " "}

\* The signatures of the child functions explored.
InheritSignatures ==
    {[args |-> <<>>, varargs |-> None, varkw |-> None, kwonlyargs |-> <<>>],
     [args |-> <<"a">>, varargs |-> None, varkw |-> None, kwonlyargs |-> <<>>],
     [args |-> <<"self", "a", "b">>, varargs |-> "v", varkw |-> None,
      kwonlyargs |-> <<>>]}

InitInherit ==
    /\ cls \in {GoogleDocstringInheritor, NumpyDocstringInheritor}
    /\ parent_doc \in {None, ""} \cup Docstrings(cls)
    /\ child_func \in {Func(doc, spec) :
                          doc \in {None, ""} \cup Docstrings(cls),
                          spec \in InheritSignatures}
    /\ parent_sections = <<>>
    /\ child_sections = <<>>
    /\ child_sections_in = <<>>
    /\ returned = <<>>
    /\ warnings = <<>>
    /\ rendered = <<>>
    /\ attr_name = None
    /\ mro_classes = <<>>
    /\ mro_index = 0
    /\ visited = <<>>
    /\ class_doc = None
    /\ init_in_class = FALSE
    /\ init_methods = <<>>
    /\ init_method = 0
    /\ old_init_doc = None
    /\ environ \in EnvironValues
    /\ SIMILARITY_RATIO = None
    /\ pc = "import"

\* if parent_doc == "", in place of the test for None.
parent_doc_is_empty(doc) == doc = ""

\* if parent_doc is None
parent_doc_is_None(doc) == doc = None

\* _parse_sections(docstring): the sections, or the exception raised.
parsed(c, docstring) ==
    IF parse_sections_raises(docstring)
    THEN [raised |-> TRUE, sections |-> <<>>]
    ELSE [raised |-> FALSE, sections |-> parse_sections(c, docstring)]

\* BaseDocstringInheritor.inherit(parent_doc, child_func)
BaseDocstringInheritor_inherit ==
    /\ cls = GoogleDocstringInheritor
    /\ IF parent_doc_is_None(parent_doc)
       THEN /\ pc' = "done"
            /\ UNCHANGED <<child_func, parent_sections, child_sections,
                           child_sections_in, warnings, rendered>>
       ELSE \E parent \in {parsed(cls, parent_doc)} :
            IF parent.raised
            THEN /\ pc' = "raised"
                 /\ UNCHANGED <<child_func, parent_sections, child_sections,
                                child_sections_in, warnings, rendered>>
            ELSE \E child \in {parsed(cls, child_func.doc)} :
                 IF child.raised
                 THEN /\ pc' = "raised"
                      /\ parent_sections' = parent.sections
                      /\ UNCHANGED <<child_func, child_sections,
                                     child_sections_in, warnings, rendered>>
                 ELSE \E similar \in {warn_similar_sections(
                                          cls, parent.sections, child.sections,
                                          1, <<>>)} :
                      /\ parent_sections' = parent.sections
                      /\ child_sections_in' = child.sections
                      /\ IF similar.raised
                         THEN /\ pc' = "raised"
                              /\ child_sections' = child.sections
                              /\ warnings' = warnings \o similar.warnings
                              /\ UNCHANGED <<child_func, rendered>>
                         ELSE \E iter1 \in SetIterations(
                                      KeySet(parent.sections)
                                          \ KeySet(child.sections)),
                                 iter2 \in SetIterations(KeySet(child.sections)) :
                              \E merged \in
                                     {BaseDocstringInheritor_inherit_sections(
                                          cls, parent.sections, child.sections,
                                          child_func.spec, iter1, iter2)} :
                              \E text \in {render_docstring(cls, merged)} :
                                 /\ child_sections' = merged
                                 /\ warnings' =
                                        warnings \o similar.warnings \o
                                        filter_args_section_warnings(
                                            ARGS_SECTION_NAME(cls),
                                            child_func.spec)
                                 /\ rendered' = Append(rendered, text)
                                 /\ child_func' =
                                        [child_func EXCEPT !.doc = text]
                                 /\ pc' = "done"
    /\ UNCHANGED class_vars
    /\ UNCHANGED module_vars
    /\ UNCHANGED <<cls, parent_doc, returned>>

\* AbstractDocstringInheritor.__call__(parent_doc, child_func): the sections
\* that _inherit_sections returns are dropped, the sections parsed from the
\* child are rendered.
AbstractDocstringInheritor_call ==
    /\ cls = NumpyDocstringInheritor
    /\ IF parent_doc_is_None(parent_doc)
       THEN /\ pc' = "done"
            /\ UNCHANGED <<child_func, parent_sections, child_sections,
                           child_sections_in, returned, warnings, rendered>>
       ELSE \E parent \in {parsed(cls, parent_doc)} :
            IF parent.raised
            THEN /\ pc' = "raised"
                 /\ UNCHANGED <<child_func, parent_sections, child_sections,
                                child_sections_in, returned, warnings,
                                rendered>>
            ELSE \E child \in {parsed(cls, child_func.doc)} :
                 IF child.raised
                 THEN /\ pc' = "raised"
                      /\ parent_sections' = parent.sections
                      /\ UNCHANGED <<child_func, child_sections,
                                     child_sections_in, returned, warnings,
                                     rendered>>
                 ELSE \E filtered \in {filters_sections(child.sections)} :
                      \E text \in {render_docstring(cls, filtered)} :
                         /\ parent_sections' = parent.sections
                         /\ child_sections_in' = child.sections
                         /\ child_sections' = filtered
                         /\ \E iter1 \in SetIterations(
                                    KeySet(parent.sections) \ KeySet(filtered)),
                               iter2 \in SetIterations(KeySet(filtered)) :
                               returned' =
                                   <<AbstractDocstringInheritor_inherit_sections(
                                         cls, parent.sections, filtered,
                                         child_func.spec, iter1, iter2)>>
                         /\ rendered' = Append(rendered, text)
                         /\ child_func' = [child_func EXCEPT !.doc = text]
                         /\ pc' = "done"
                         /\ UNCHANGED warnings
    /\ UNCHANGED class_vars
    /\ UNCHANGED module_vars
    /\ UNCHANGED <<cls, parent_doc>>

Inherit ==
    /\ pc = "inherit"
    /\ \/ BaseDocstringInheritor_inherit
       \/ AbstractDocstringInheritor_call

NextInherit == ImportInheritor \/ Inherit

SpecInherit == InitInherit /\ [][NextInherit]_vars

\* C7: when the parent docstring is None, inherit does not parse, merge or
\* render, and the child function keeps its docstring and its signature.
C7_AbsentParentLeavesTheChildAlone ==
    [][parent_doc = None =>
           UNCHANGED <<child_func, parent_sections, child_sections,
                       child_sections_in, returned, warnings, rendered>>]_vars

C7_Witness ==
    /\ pc = "done"
    /\ parent_doc = None
    /\ child_func.doc \notin {None, ""}
    /\ all_args(child_func.spec) # <<>>

-----------------------------------------------------------------------------
(* ClassDocstringsInheritor.__inherit_methods_docstrings for one method of *)
(* the class: the method inherits from the parent classes in resolution    *)
(* order until no description of an argument is missing.                   *)

\* getattr(parent_cls, attr_name, None): a method with its docstring, or None.
ParentMethod(doc) == [method |-> TRUE, doc |-> doc]
NoParentMethod == [method |-> FALSE, doc |-> None]

\* object.__init__.__doc__
object_init_doc ==
    "Initialize self.  See help(type(self)) for accurate signature."

\* The arguments section of sections, empty when there is none.
args_items(c, sections) ==
    IF DictHas(sections, ARGS_SECTION_NAME(c))
    THEN DictGet(sections, ARGS_SECTION_NAME(c)).items
    ELSE <<>>

\* inheritor.has_missing_descriptions: an argument of the signature has no
\* description in the sections of the child, or the placeholder.
has_missing_descriptions(c, sections, spec) ==
    \E i \in 1..Len(all_args(spec)) :
        \/ ~DictHas(args_items(c, sections), all_args(spec)[i])
        \/ DictGet(args_items(c, sections), all_args(spec)[i])
               = MISSING_ARG_TEXT(c)

\* The sections of the child without the arguments that an earlier merge gave
\* the placeholder: they stay to be inherited.
documented_sections(c, sections) ==
    [i \in 1..Len(sections) |->
        IF sections[i].k = ARGS_SECTION_NAME(c)
        THEN [k |-> sections[i].k,
              v |-> DictBody(SelectSeq(sections[i].v.items,
                        LAMBDA item : item.v # MISSING_ARG_TEXT(c)))]
        ELSE sections[i]]

\* inheritor.inherit(parent_doc) for a docstring that is not None: the
\* sections of the child after the merge of the parsed parent.
inheritor_inherit(c, sections, parent, spec, iter1, iter2) ==
    BaseDocstringInheritor_inherit_sections(
        c, parent, documented_sections(c, sections), spec, iter1, iter2)

\* always break: the first parent with the method ends the inheritance.
break_at_first_parent(missing) == TRUE

\* if not inheritor.has_missing_descriptions: break
break_when_complete(missing) == ~missing

\* The docstring of the method in the i-th parent class.
ParentDocstrings(i) ==
    LET p == IF i = 1 THEN "p1" ELSE IF i = 2 THEN "p2" ELSE "p3"
    IN  {"\nArgs:\n    a: " \o p \o " a",
         "\nArgs:\n    b: " \o p \o " b",
         "Sum " \o p \o "\n\nArgs:\n    a: " \o p \o " a\n    *v: " \o p \o " v"}

\* The method in the i-th parent class: none, one without docstring, one
\* with the docstring of object.__init__, a documented one.
ParentMethods(i) ==
    {NoParentMethod, ParentMethod(None), ParentMethod(object_init_doc)}
    \cup {ParentMethod(doc) : doc \in ParentDocstrings(i)}

\* The parent classes of a class, at most MaxParents.
ResolutionOrders ==
    UNION {{mro \in [1..n -> UNION {ParentMethods(i) : i \in 1..n}] :
               \A i \in 1..n : mro[i] \in ParentMethods(i)} :
           n \in 0..MaxParents}

InitClass ==
    /\ cls = GoogleDocstringInheritor
    /\ attr_name \in {"method", "__init__"}
    /\ mro_classes \in ResolutionOrders
    /\ mro_index = 0
    /\ visited = <<>>
    /\ class_doc = None
    /\ init_in_class = FALSE
    /\ init_methods = <<>>
    /\ init_method = 0
    /\ old_init_doc = None
    /\ environ = None
    /\ SIMILARITY_RATIO = <<9, 10>>
    /\ parent_doc = None
    /\ child_func \in {Func(doc, spec) :
           doc \in {None, "\nArgs:\n    a: child a"},
           spec \in {[args |-> <<"self", "a", "b">>, varargs |-> "v",
                      varkw |-> None, kwonlyargs |-> <<>>]}}
    /\ parent_sections = <<>>
    /\ child_sections = <<>>
    /\ child_sections_in = <<>>
    /\ returned = <<>>
    /\ warnings = <<>>
    /\ rendered = <<>>
    /\ pc = "create"

\* inheritor = create_inheritor(attr): the inheritor holds the parsed
\* sections of the method.
CreateInheritor ==
    /\ pc = "create"
    /\ \E child \in {parsed(cls, child_func.doc)} :
          IF child.raised
          THEN /\ pc' = "raised"
               /\ UNCHANGED <<child_sections, child_sections_in>>
          ELSE /\ pc' = "parents"
               /\ child_sections' = child.sections
               /\ child_sections_in' = child.sections
    /\ UNCHANGED <<cls, parent_doc, child_func, parent_sections, returned,
                   warnings, rendered, class_vars, module_vars>>

\* One turn of the loop over mro_classes.
InheritFromParent ==
    /\ pc = "parents"
    /\ mro_index < Len(mro_classes)
    /\ mro_index' = mro_index + 1
    /\ \E parent_method \in {mro_classes[mro_index + 1]} :
          IF \/ ~parent_method.method
             \/ attr_name = "__init__" /\ parent_method.doc = object_init_doc
          THEN /\ pc' = "parents"
               /\ UNCHANGED <<parent_doc, parent_sections, child_sections,
                              warnings, visited>>
          ELSE /\ parent_doc' = parent_method.doc
               /\ visited' = Append(visited, mro_index + 1)
               /\ IF parent_doc_is_None(parent_method.doc)
                  THEN /\ pc' = IF break_when_complete(
                                       has_missing_descriptions(
                                           cls, child_sections, child_func.spec))
                                THEN "render"
                                ELSE "parents"
                       /\ UNCHANGED <<parent_sections, child_sections,
                                      warnings>>
                  ELSE \E parent \in {parsed(cls, parent_method.doc)} :
                       IF parent.raised
                       THEN /\ pc' = "raised"
                            /\ UNCHANGED <<parent_sections, child_sections,
                                           warnings>>
                       ELSE \E similar \in {warn_similar_sections(
                                                cls, parent.sections,
                                                child_sections, 1, <<>>)} :
                            /\ parent_sections' = parent.sections
                            /\ IF similar.raised
                               THEN /\ pc' = "raised"
                                    /\ warnings' = warnings \o similar.warnings
                                    /\ UNCHANGED child_sections
                               ELSE \E iter1 \in SetIterations(
                                            KeySet(parent.sections)
                                                \ KeySet(child_sections)),
                                       iter2 \in SetIterations(
                                            KeySet(child_sections)) :
                                    \E merged \in {inheritor_inherit(
                                           cls, child_sections, parent.sections,
                                           child_func.spec, iter1, iter2)} :
                                       /\ child_sections' = merged
                                       /\ warnings' =
                                              warnings \o similar.warnings \o
                                              filter_args_section_warnings(
                                                  ARGS_SECTION_NAME(cls),
                                                  child_func.spec)
                                       /\ pc' = IF break_when_complete(
                                                      has_missing_descriptions(
                                                          cls, merged,
                                                          child_func.spec))
                                                THEN "render"
                                                ELSE "parents"
    /\ UNCHANGED <<cls, attr_name, mro_classes, child_func, child_sections_in,
                   returned, rendered, class_doc, init_vars, module_vars>>

\* inheritor.render(), after the loop ended or broke: the docstring of the
\* method is rendered from the sections of the child, if any.
RenderInheritor ==
    /\ \/ pc = "render"
       \/ pc = "parents" /\ mro_index = Len(mro_classes)
    /\ IF child_sections # <<>>
       THEN \E text \in {render_docstring(cls, child_sections)} :
               /\ rendered' = Append(rendered, text)
               /\ child_func' = [child_func EXCEPT !.doc = text]
       ELSE UNCHANGED <<rendered, child_func>>
    /\ pc' = "done"
    /\ UNCHANGED <<cls, parent_doc, parent_sections, child_sections,
                   child_sections_in, returned, warnings, class_vars,
                   module_vars>>

NextClass == CreateInheritor \/ InheritFromParent \/ RenderInheritor

SpecClass == InitClass /\ [][NextClass]_vars

\* The arguments that the docstring of the i-th parent class documents, none
\* when the loop skips the class or the method has no docstring.
ParentArguments(i) ==
    IF \/ ~mro_classes[i].method
       \/ mro_classes[i].doc = None
       \/ attr_name = "__init__" /\ mro_classes[i].doc = object_init_doc
    THEN <<>>
    ELSE args_items(cls, parse_sections(cls, mro_classes[i].doc))

\* The parent classes from the i-th on that document the argument arg.
ParentsThatDocument(arg, i) ==
    {j \in i..Len(mro_classes) : DictHas(ParentArguments(j), arg)}

\* The closest parent class that documents arg.
ClosestParent(arg) ==
    CHOOSE j \in ParentsThatDocument(arg, 1) :
        \A l \in ParentsThatDocument(arg, 1) : j <= l

-----------------------------------------------------------------------------
(* The docstring of a class: ClassDocstringsInheritor                      *)
(* .__inherit_class_docstring with the inheritor of the Google format, and *)
(* AbstractDocstringInheritanceMeta._inherit_class_docstring with the      *)
(* processors.                                                             *)

\* The classes whose docstring_processor the metaclass calls.
ProcessorClasses == {GoogleDocstringProcessor, NumpyDocstringProcessor}

\* A parent class with its __doc__.
ParentClass(doc) == [doc |-> doc]

\* _create_dummy_func_with_doc: def func() -> None
DummySignature ==
    [args |-> <<>>, varargs |-> None, varkw |-> None, kwonlyargs |-> <<>>]

\* The signature of an __init__(self, a) that documents its arguments in
\* the docstring of the class.
InitSignature ==
    [args |-> <<"self", "a">>, varargs |-> None, varkw |-> None,
     kwonlyargs |-> <<>>]

\* The signature of the __init__(self, b) of a parent class.
ParentInitSignature ==
    [args |-> <<"self", "b">>, varargs |-> None, varkw |-> None,
     kwonlyargs |-> <<>>]

\* The __doc__ of the __init__ that the i-th class of the resolution order
\* defines, the class itself being the first.
InitDocstring(i) ==
    IF i = 1 THEN "c init" ELSE IF i = 2 THEN "p1 init"
    ELSE IF i = 3 THEN "p2 init" ELSE "p3 init"

\* The __init__ that the class (the first) and its n parents define in their
\* bodies: [defined, doc, spec], defined being false where the body of the
\* class has no __init__.
InitMethods(n) ==
    {[i \in 1..(n + 1) |->
         IF i \in bodies
         THEN [defined |-> TRUE, doc |-> InitDocstring(i),
               spec |-> IF i = 1 THEN InitSignature
                        ELSE ParentInitSignature]
         ELSE [defined |-> FALSE, doc |-> None, spec |-> DummySignature]] :
        bodies \in SUBSET (1..(n + 1))}

\* getattr(class, "__init__") for the i-th class of the resolution order, the
\* classes being a chain of single inheritance: the place in init_methods of
\* the closest __init__ defined from that class on, 0 for the slot wrapper
\* object.__init__.
getattr_init(i) ==
    IF \E j \in i..Len(init_methods) : init_methods[j].defined
    THEN CHOOSE j \in i..Len(init_methods) :
             /\ init_methods[j].defined
             /\ \A h \in i..(j - 1) : ~init_methods[h].defined
    ELSE 0

\* The Section Models that the docstrings of the classes are written from;
\* who is "c" for the class and "p1", "p2", ... for its parents.
ClassDocstringModels(c, who) ==
    {<<[k |-> None, v |-> StrBody(who \o " sum.")],
       [k |-> "Attributes",
        v |-> DictBody(
                  <<[k |-> "a", v |-> ItemDescription(c, who \o " a")]>>
                  \o (IF who = "c" THEN <<>>
                      ELSE <<[k |-> "b",
                              v |-> ItemDescription(c, who \o " b")]>>))]>>,
     <<[k |-> ARGS_SECTION_NAME(c),
        v |-> DictBody(<<[k |-> "a",
                          v |-> ItemDescription(c, who \o " a")]>>)],
       [k |-> "Notes", v |-> StrBody(who \o " notes")]>>}
    \cup (IF who = "c" THEN {}
          ELSE {<<[k |-> None, v |-> StrBody(who \o " sum.")],
                  [k |-> "Methods",
                   v |-> DictBody(<<[k |-> "m",
                                     v |-> ItemDescription(
                                               c, who \o " m")]>>)]>>})

\* The docstrings of the classes: none, or a text in the format of c.
ClassDocstrings(c, who) ==
    {None} \cup {render_docstring(c, m) : m \in ClassDocstringModels(c, who)}

\* cls.mro()[1:-1]: the parent classes, closest first, at most MaxParents.
ClassResolutionOrders(c) ==
    LET who(i) == IF i = 1 THEN "p1" ELSE IF i = 2 THEN "p2" ELSE "p3"
        all == UNION {ClassDocstrings(c, who(i)) : i \in 1..MaxParents}
    IN  UNION {{[i \in 1..n |-> ParentClass(docs[i])] :
                   docs \in {ds \in [1..n -> all] :
                                \A i \in 1..n :
                                    ds[i] \in ClassDocstrings(c, who(i))}} :
               n \in 0..MaxParents}

InitClassDocstring ==
    /\ cls \in {GoogleDocstringInheritor} \cup ProcessorClasses
    /\ attr_name = "__doc__"
    /\ mro_classes \in ClassResolutionOrders(cls)
    /\ mro_index = 0
    /\ visited = <<>>
    /\ class_doc \in ClassDocstrings(cls, "c")
    /\ init_in_class \in BOOLEAN
    /\ init_methods \in InitMethods(Len(mro_classes))
    /\ init_method = 0
    /\ old_init_doc = None
    /\ environ = None
    /\ SIMILARITY_RATIO = <<9, 10>>
    /\ parent_doc = None
    /\ child_func = Func(None, DummySignature)
    /\ parent_sections = <<>>
    /\ child_sections = <<>>
    /\ child_sections_in = <<>>
    /\ returned = <<>>
    /\ warnings = <<>>
    /\ rendered = <<>>
    /\ pc = "func"

\* func gets the docstring of the class.  In ClassDocstringsInheritor, func
\* is the __init__ of the class when init_in_class is set and that __init__
\* is not the one of object, and its docstring is kept in old_init_doc.  In
\* _get_class_dummy_func of the metaclass, func is the copy of the __init__
\* of the first parent class, and the copy of a function is that function;
\* func.__doc__ of the slot wrapper of object cannot be assigned.  Otherwise
\* func is a dummy function.  While the step runs, child_func is the function
\* at init_methods[init_method].
CreateFunc ==
    /\ pc = "func"
    /\ \E method \in {IF ~init_in_class THEN 0
                       ELSE IF cls \in ProcessorClasses
                            THEN (IF mro_classes = <<>> THEN 0
                                  ELSE getattr_init(2))
                            ELSE getattr_init(1)} :
          IF method # 0
          THEN /\ init_method' = method
               /\ old_init_doc' = IF cls \in ProcessorClasses
                                   THEN old_init_doc
                                   ELSE init_methods[method].doc
               /\ init_methods' =
                      [init_methods EXCEPT ![method].doc = class_doc]
               /\ child_func' = Func(class_doc, init_methods[method].spec)
               /\ pc' = IF cls \in ProcessorClasses
                         THEN "classes" ELSE "create"
          ELSE IF init_in_class /\ cls \in ProcessorClasses
                  /\ mro_classes # <<>>
               THEN /\ pc' = "AttributeError"
                    /\ UNCHANGED <<child_func, init_methods, init_method,
                                   old_init_doc>>
               ELSE /\ child_func' = Func(class_doc, DummySignature)
                    /\ pc' = IF cls \in ProcessorClasses
                              THEN "classes" ELSE "create"
                    /\ UNCHANGED <<init_methods, init_method, old_init_doc>>
    /\ UNCHANGED <<cls, parent_doc, parent_sections, child_sections,
                   child_sections_in, returned, warnings, rendered,
                   attr_name, mro_classes, mro_index, visited, class_doc,
                   init_in_class, module_vars>>

\* docstring_inheritor = self.__docstring_inheritor(func): the inheritor
\* holds the parsed sections of func.
CreateClassInheritor ==
    /\ pc = "create"
    /\ \E child \in {parsed(cls, child_func.doc)} :
          IF child.raised
          THEN /\ pc' = "raised"
               /\ UNCHANGED <<child_sections, child_sections_in>>
          ELSE /\ pc' = "ancestors"
               /\ child_sections' = child.sections
               /\ child_sections_in' = child.sections
    /\ UNCHANGED <<cls, parent_doc, child_func, parent_sections, returned,
                   warnings, rendered, class_vars, module_vars>>

\* One turn of the loop of __inherit_class_docstring:
\* docstring_inheritor.inherit(parent_cls.__doc__)
InheritFromParentClass ==
    /\ pc = "ancestors"
    /\ mro_index < Len(mro_classes)
    /\ mro_index' = mro_index + 1
    /\ \E doc \in {mro_classes[mro_index + 1].doc} :
          /\ parent_doc' = doc
          /\ visited' = Append(visited, mro_index + 1)
          /\ IF parent_doc_is_None(doc)
             THEN /\ pc' = "ancestors"
                  /\ UNCHANGED <<parent_sections, child_sections, warnings>>
             ELSE \E parent \in {parsed(cls, doc)} :
                  IF parent.raised
                  THEN /\ pc' = "raised"
                       /\ UNCHANGED <<parent_sections, child_sections,
                                      warnings>>
                  ELSE \E similar \in {warn_similar_sections(
                                           cls, parent.sections,
                                           child_sections, 1, <<>>)} :
                       /\ parent_sections' = parent.sections
                       /\ IF similar.raised
                          THEN /\ pc' = "raised"
                               /\ warnings' = warnings \o similar.warnings
                               /\ UNCHANGED child_sections
                          ELSE \E iter1 \in SetIterations(
                                       KeySet(parent.sections)
                                           \ KeySet(child_sections)),
                                  iter2 \in SetIterations(
                                       KeySet(child_sections)) :
                               \E merged \in {inheritor_inherit(
                                      cls, child_sections, parent.sections,
                                      child_func.spec, iter1, iter2)} :
                                  /\ child_sections' = merged
                                  /\ warnings' =
                                         warnings \o similar.warnings \o
                                         filter_args_section_warnings(
                                             ARGS_SECTION_NAME(cls),
                                             child_func.spec)
                                  /\ pc' = "ancestors"
    /\ UNCHANGED <<cls, attr_name, mro_classes, class_doc, child_func,
                   child_sections_in, returned, rendered, init_vars,
                   module_vars>>

\* docstring_inheritor.render(), after the loop: func gets the text of the
\* sections of the inheritor, if any.
RenderClassDocstring ==
    /\ pc = "ancestors"
    /\ mro_index = Len(mro_classes)
    /\ IF child_sections # <<>>
       THEN \E text \in {render_docstring(cls, child_sections)} :
               /\ rendered' = Append(rendered, text)
               /\ child_func' = [child_func EXCEPT !.doc = text]
       ELSE UNCHANGED <<rendered, child_func>>
    /\ pc' = "inherited"
    /\ UNCHANGED <<cls, parent_doc, parent_sections, child_sections,
                   child_sections_in, returned, warnings, class_vars,
                   module_vars>>

\* AbstractDocstringProcessor.__call__(parent_doc, child_func), in one turn
\* of the loop of _inherit_class_docstring of the metaclass:
\* cls.docstring_processor(cls_.__doc__, func)
ProcessParentClass ==
    /\ pc = "classes"
    /\ mro_index < Len(mro_classes)
    /\ mro_index' = mro_index + 1
    /\ \E doc \in {mro_classes[mro_index + 1].doc} :
          /\ parent_doc' = doc
          /\ visited' = Append(visited, mro_index + 1)
          /\ IF parent_doc_is_None(doc)
             THEN /\ pc' = "classes"
                  /\ UNCHANGED <<parent_sections, child_sections,
                                 child_sections_in, child_func, rendered>>
             ELSE \E parent \in {parsed(cls, doc)},
                     child \in {parsed(cls, child_func.doc)} :
                  IF parent.raised \/ child.raised
                  THEN /\ pc' = "raised"
                       /\ UNCHANGED <<parent_sections, child_sections,
                                      child_sections_in, child_func,
                                      rendered>>
                  ELSE \E iter1 \in SetIterations(
                               KeySet(parent.sections)
                                   \ KeySet(child.sections)),
                          iter2 \in SetIterations(KeySet(child.sections)) :
                       \E merged \in
                              {AbstractDocstringProcessor_inherit_sections(
                                   cls, parent.sections, child.sections,
                                   child_func.spec, iter1, iter2)} :
                       \E text \in {render_docstring(cls, merged)} :
                          /\ parent_sections' = parent.sections
                          /\ child_sections_in' = child.sections
                          /\ child_sections' = merged
                          /\ rendered' = Append(rendered, text)
                          /\ child_func' = [child_func EXCEPT !.doc = text]
                          /\ pc' = "classes"
    /\ UNCHANGED <<cls, attr_name, mro_classes, class_doc, returned, warnings,
                   init_vars, module_vars>>

\* The loop of the metaclass ended.
EndOfClasses ==
    /\ pc = "classes"
    /\ mro_index = Len(mro_classes)
    /\ pc' = "inherited"
    /\ UNCHANGED <<cls, parent_doc, child_func, parent_sections,
                   child_sections, child_sections_in, returned, warnings,
                   rendered, class_vars, module_vars>>

\* self.__cls.__doc__ = func.__doc__, class_dict["__doc__"] = func.__doc__,
\* then init_method.__doc__ = old_init_doc in ClassDocstringsInheritor when
\* the docstring of __init__ was changed; the metaclass leaves the function
\* it took with the docstring that the processor wrote.
SetClassDocstring ==
    /\ pc = "inherited"
    /\ class_doc' = child_func.doc
    /\ IF init_method = 0
       THEN UNCHANGED <<child_func, init_methods>>
       ELSE IF cls \in ProcessorClasses
            THEN /\ init_methods' =
                        [init_methods EXCEPT ![init_method].doc =
                                                 child_func.doc]
                 /\ UNCHANGED child_func
            ELSE /\ init_methods' =
                        [init_methods EXCEPT ![init_method].doc =
                                                 old_init_doc]
                 /\ child_func' = [child_func EXCEPT !.doc = old_init_doc]
    /\ pc' = "done"
    /\ UNCHANGED <<cls, parent_doc, parent_sections, child_sections,
                   child_sections_in, returned, warnings, rendered,
                   attr_name, mro_classes, mro_index, visited, init_in_class,
                   init_method, old_init_doc, module_vars>>

NextClassDocstring ==
    \/ CreateFunc
    \/ CreateClassInheritor
    \/ InheritFromParentClass
    \/ RenderClassDocstring
    \/ ProcessParentClass
    \/ EndOfClasses
    \/ SetClassDocstring

SpecClassDocstring == InitClassDocstring /\ [][NextClassDocstring]_vars

\* The sections of the class itself (0) and of its i-th parent class, as the
\* parser of cls reads them from their docstrings.
ClassSource(i) ==
    IF i = 0
    THEN parse_sections(cls, class_doc)
    ELSE parse_sections(cls, mro_classes[i].doc)

\* The sections of the docstring that the class inherited.
InheritedClassSections == parse_sections(cls, child_func.doc)

\* The class and the parents that have the section key, that have the item
\* name in the section key.
SourcesWithSection(key) ==
    {i \in 0..Len(mro_classes) : DictHas(ClassSource(i), key)}
SourcesWithItem(key, name) ==
    {i \in SourcesWithSection(key) :
        DictHas(DictGet(ClassSource(i), key).items, name)}

\* The closest of a set of sources: the class first, then its parents in
\* resolution order.
ClosestSource(sources) ==
    CHOOSE i \in sources : \A j \in sources : i <= j

\* C11: once every parent class was merged, a prose section of the docstring
\* of the class holds the text of the class, or else of the closest parent
\* that has the section; a section with items other than the arguments holds
\* the items of the class and of all its parents, each with the description
\* of the closest class that defines it; the docstring has no other section.
C11_ClassDocstringCombinesAllAncestors ==
    pc = "inherited" =>
        \A key \in (KeySet(InheritedClassSections)
                    \cup UNION {KeySet(ClassSource(i)) :
                                   i \in 0..Len(mro_classes)})
                   \ ARGS_SECTION_NAMES(cls) :
            /\ SourcesWithSection(key) # {}
            /\ DictHas(InheritedClassSections, key)
            /\ IF key \in SECTION_NAMES_WITH_ITEMS(cls)
               THEN LET items == DictGet(InheritedClassSections, key).items
                        names == UNION {KeySet(DictGet(ClassSource(i),
                                                       key).items) :
                                           i \in SourcesWithSection(key)}
                    IN  /\ KeySet(items) = names
                        /\ \A name \in names :
                              DictGet(items, name) =
                                  DictGet(DictGet(
                                      ClassSource(ClosestSource(
                                          SourcesWithItem(key, name))),
                                      key).items, name)
               ELSE DictGet(InheritedClassSections, key) =
                        DictGet(ClassSource(ClosestSource(
                                    SourcesWithSection(key))), key)

-----------------------------------------------------------------------------
(* The parsers on arbitrary text: _parse_sections of the inheritors and of *)
(* the processors on docstrings of at most MaxLines lines.                 *)

\* The lines that the docstrings are written with in each format: headers,
\* underlines, bodies, and lines that only look like one of them.
DocstringLines(c) ==
    IF IsGoogle(c)
    THEN {"", "text", "Args:", "Todo:", " Args:", "  x", " y"}
    ELSE {"", "text", "Zz", " Zz", "-----", "--", "==-=="}

\* A complete section that may end a docstring.
LastSection(c) ==
    IF IsGoogle(c)
    THEN <<"Returns:", "  r">>
    ELSE <<"Notes", "-----", "n">>

\* The docstrings of at most MaxLines lines, alone or before a last section.
ParsedDocstrings(c) ==
    UNION {{join("\n", lines \o last) :
               lines \in [1..n -> DocstringLines(c)],
               last \in {<<>>, LastSection(c)}} :
           n \in 0..MaxLines}

InitParse ==
    /\ cls \in Classes
    /\ parent_doc \in {None} \cup ParsedDocstrings(cls)
    /\ child_func = Func(None, DummySignature)
    /\ parent_sections = <<>>
    /\ child_sections = <<>>
    /\ child_sections_in = <<>>
    /\ returned = <<>>
    /\ warnings = <<>>
    /\ rendered = <<>>
    /\ attr_name = None
    /\ mro_classes = <<>>
    /\ mro_index = 0
    /\ visited = <<>>
    /\ class_doc = None
    /\ init_in_class = FALSE
    /\ init_methods = <<>>
    /\ init_method = 0
    /\ old_init_doc = None
    /\ environ = None
    /\ SIMILARITY_RATIO = <<9, 10>>
    /\ pc = "parse"

\* parent_sections = _parse_sections(parent_doc)
ParseDocstring ==
    /\ pc = "parse"
    /\ \E parent \in {parsed(cls, parent_doc)} :
          IF parent.raised
          THEN /\ pc' = "raised"
               /\ UNCHANGED parent_sections
          ELSE /\ pc' = "parsed"
               /\ parent_sections' = parent.sections
    /\ UNCHANGED <<cls, parent_doc, child_func, child_sections,
                   child_sections_in, returned, warnings, rendered,
                   class_vars, module_vars>>

\* _render_docstring(parent_sections)
RenderParsed ==
    /\ pc = "parsed"
    /\ rendered' = Append(rendered, render_docstring(cls, parent_sections))
    /\ pc' = "rendered"
    /\ UNCHANGED <<cls, parent_doc, child_func, parent_sections,
                   child_sections, child_sections_in, returned, warnings,
                   class_vars, module_vars>>

NextParse == ParseDocstring \/ RenderParsed

SpecParse == InitParse /\ [][NextParse]_vars

-----------------------------------------------------------------------------
(* Properties of the parsers.                                              *)

\* The lines that _parse_sections works on.
ParsedLines == splitlines(cleandoc(parent_doc))

\* A docstring was parsed into sections: it is not None and not empty.
ParsedText ==
    /\ pc = "parsed"
    /\ parent_doc # None
    /\ parent_doc # ""

\* The name that a header line gives to its section.
HeaderName(c, line) ==
    IF IsGoogle(c) THEN rstrip_chars(rstrip(line), {" ", ":"}) ELSE rstrip(line)

\* The first of the line numbers in headers after line n, or the number
\* after the last line.
NextHeader(lines, headers, n) ==
    LET later == {m \in headers : m > n} \cup {Len(lines) + 1}
    IN  CHOOSE m \in later : \A l \in later : m <= l

\* The value of the section whose header is line n when the lines in headers
\* are the headers: the lines down to the next header, without the underline
\* in the Numpy format.
BlockValue(c, lines, headers, n) ==
    LET first == IF IsGoogle(c) THEN n + 1 ELSE n + 2
        last == NextHeader(lines, headers, n) - 1
        block == [i \in 1..(last - first + 1) |-> rstrip(lines[first + i - 1])]
    IN  section_value(c, HeaderName(c, lines[n]),
                      get_section_body(c, reversed(block)))

\* The value of the summary when the lines in headers are the headers: the
\* lines before the first header.
SummaryValue(c, lines, headers) ==
    LET last == NextHeader(lines, headers, 0) - 1
        block == [i \in 1..last |->
                     IF i = 1 THEN lines[1] ELSE rstrip(lines[i])]
    IN  StrBody(get_section_body(c, reversed(block)))

\* sections are the blocks of lines that the headers cut: the summary before
\* the first header unless line 1 is a header, and for every header its
\* block; of two headers with one name the upper one gives the value.
SectionsAreTheBlocksOf(c, sections, lines, headers) ==
    /\ KeySet(sections) =
           {HeaderName(c, lines[n]) : n \in headers}
           \cup (IF 1 \in headers THEN {} ELSE {None})
    /\ 1 \notin headers =>
           DictGet(sections, None) = SummaryValue(c, lines, headers)
    /\ \A n \in headers :
           (\A m \in headers :
                HeaderName(c, lines[m]) = HeaderName(c, lines[n]) => n <= m)
           => DictGet(sections, HeaderName(c, lines[n]))
                  = BlockValue(c, lines, headers, n)

\* The headers of the Google format whatever the name: the line has no
\* leading whitespace and ends with a colon, the next line begins with two
\* spaces.
GoogleHeaders(lines) ==
    {n \in 1..(Len(lines) - 1) :
        /\ lines[n] # ""
        /\ ~IsSpace(Chr(lines[n], 1))
        /\ endswith(lines[n], ":")
        /\ startswith(lines[n + 1], "  ")}

\* C12: in the Google format a line without leading whitespace that ends
\* with a colon and that a line indented by two spaces follows is a section
\* header whatever its name, and no other line is: the parsed sections are
\* the blocks that these headers cut, a block named Todo included.
C12_GoogleHeaderOfAnyName ==
    ParsedText /\ IsGoogle(cls) =>
        SectionsAreTheBlocksOf(cls, parent_sections, ParsedLines,
                               GoogleHeaders(ParsedLines))

\* The headers of GoogleHeaders whose name is a standard section name.
GoogleCanonicalHeaders(c, lines) ==
    {n \in GoogleHeaders(lines) :
        strip(SubSeq(lines[n], 1, Len(lines[n]) - 1))
            \in Range(SECTION_NAMES(c)) \ {None}}

NumpyHeaders(lines) ==
    {n \in 1..(Len(lines) - 1) :
        /\ lines[n] # ""
        /\ ~IsSpace(Chr(lines[n], 1))
        /\ CharSet(rstrip(lines[n + 1])) \in {{"-"}, {"="}}
        /\ Len(rstrip(lines[n + 1])) >= 3
        /\ Len(rstrip(lines[n + 1])) >= Len(rstrip(lines[n]))}

\* C14: in the Numpy format a line is a section header exactly when it is a
\* name without leading whitespace that a long enough underline follows; the
\* parsed sections are the blocks that these headers cut, and every other
\* pair of lines is text of a block.
C14_NumpyHeaderIsAnUnderlinedName ==
    ParsedText /\ ~IsGoogle(cls) =>
        SectionsAreTheBlocksOf(cls, parent_sections, ParsedLines,
                               NumpyHeaders(ParsedLines))

\* The lines that the loop of _parse_sections takes for headers: a pair of
\* lines that _parse_one_section accepts, unless the second line is itself
\* the header of the pair below.
RECURSIVE IsParsedHeader(_, _, _)
IsParsedHeader(c, lines, n) ==
    /\ n < Len(lines)
    /\ parse_one_section(c, lines[n], rstrip(lines[n + 1]), <<>>) # NoSection
    /\ ~IsParsedHeader(c, lines, n + 1)
ParsedHeaders(c, lines) ==
    {n \in 1..(Len(lines) - 1) : IsParsedHeader(c, lines, n)}

\* The members of a set of numbers in increasing order.
RECURSIVE Increasing(_)
Increasing(S) ==
    IF S = {} THEN <<>>
    ELSE LET least == CHOOSE n \in S : \A m \in S : n <= m
         IN  <<least>> \o Increasing(S \ {least})

\* The names of the headers from top to bottom; a name of several headers
\* stands at the place of its last header.
NamesTopToBottom(c, lines, headers) ==
    LET kept == {n \in headers :
                    \A m \in headers :
                        HeaderName(c, lines[m]) = HeaderName(c, lines[n])
                        => m <= n}
        order == Increasing(kept)
    IN  [i \in 1..Len(order) |-> HeaderName(c, lines[order[i]])]

\* The lines without the blank lines at their end.
RECURSIVE WithoutBlankEnd(_)
WithoutBlankEnd(lines) ==
    IF lines # <<>> /\ strip(lines[Len(lines)]) = ""
    THEN WithoutBlankEnd(SubSeq(lines, 1, Len(lines) - 1))
    ELSE lines

\* The lines before the first header without the blank lines at their end,
\* with the indentation that the format gives to every body.
LeadingProse(c, lines, headers) ==
    LET text == join("\n", WithoutBlankEnd(
                    SubSeq(lines, 1, NextHeader(lines, headers, 0) - 1)))
    IN  IF IsGoogle(c) THEN dedent(text) ELSE text

\* C15: the parsed sections come in the order of the text: the summary
\* first, then the sections in the order of their headers from top to
\* bottom; there is no summary exactly when the first line is a header, and
\* the summary is the text before the first header without the blank lines
\* at its end.
C15_SectionsInDiscoveryOrder ==
    ParsedText =>
        LET lines == ParsedLines
            headers == ParsedHeaders(cls, lines)
        IN  /\ DictHas(parent_sections, None) <=> 1 \notin headers
            /\ 1 \notin headers =>
                  /\ parent_sections[1].k = None
                  /\ parent_sections[1].v =
                         StrBody(LeadingProse(cls, lines, headers))
            /\ SelectSeq(KeyList(parent_sections), LAMBDA k : k # None)
                   = NamesTopToBottom(cls, lines, headers)

\* A summary, then a non-standard section, then a standard one.
C15_Witness ==
    /\ pc = "parsed"
    /\ cls = NumpyDocstringInheritor
    /\ parent_doc = "text\nZz\n-----\nNotes\n-----\nn"
    /\ KeyList(parent_sections) = <<None, "Zz", "Notes">>

\* C16: _parse_sections never raises, and a docstring that is None, empty or
\* made of whitespace only is parsed into the empty Section Model.
C16_ParseNeverRaises ==
    /\ pc # "raised"
    /\ pc = "parsed" /\ (parent_doc = None \/ strip(parent_doc) = "")
           => parent_sections = <<>>

-----------------------------------------------------------------------------
(* The similarity ratio in force.                                          *)

\* The ratio that the environment asks for.
ConfiguredRatio == environ_SIMILARITY_RATIO(environ)

\* The equality of two fractions of positive denominators.
SameRatio(x, y) == x[1] * y[2] = y[1] * x[2]

\* C19: once the module is initialised, the similarity ratio in force is the
\* value of DOCSTRING_INHERITANCE_SIMILARITY_RATIO, 0 when it is not set; a
\* value that is not a number or is outside [0,1] has raised an error at the
\* initialisation, and a valid value is in force as it is.
C19_RatioInForceIsTheConfiguredRatio ==
    pc # "import" =>
        IF ConfiguredRatio.raised \/ ~in_unit_interval(ConfiguredRatio.value)
        THEN pc = "ValueError"
        ELSE /\ pc # "ValueError"
             /\ SameRatio(SIMILARITY_RATIO, ConfiguredRatio.value)

-----------------------------------------------------------------------------
(* The warnings for similar docstrings.                                    *)

\* The warnings of _warn_similar_section among the warnings issued.
SimilarityWarnings ==
    SelectSeq(warnings,
              LAMBDA w : w.msg = "the docstrings have a similarity ration of")

\* The texts that the parent and the child both have: a section without
\* items, or an item of a section with items, with its path.
CommonLeaves(c, parent, child) ==
    LET common == KeySet(parent) \cap KeySet(child)
    IN  {[path |-> <<name>>,
          parent_text |-> DictGet(parent, name).text,
          child_text |-> DictGet(child, name).text] :
            name \in common \ SECTION_NAMES_WITH_ITEMS(c)}
        \cup
        UNION {{[path |-> <<name, item>>,
                 parent_text |-> DictGet(DictGet(parent, name).items, item),
                 child_text |-> DictGet(DictGet(child, name).items, item)] :
                   item \in KeySet(DictGet(parent, name).items)
                              \cap KeySet(DictGet(child, name).items)} :
               name \in common \cap SECTION_NAMES_WITH_ITEMS(c)}

\* The common texts whose ratio exceeds a threshold that is not 0.
TooSimilarLeaves(c, parent, child, threshold) ==
    {leaf \in CommonLeaves(c, parent, child) :
        /\ threshold[1] # 0
        /\ greater(ratio(leaf.parent_text, leaf.child_text), threshold)}

\* The path as a warning shows it.
ShownPath(path) ==
    [i \in 1..Len(path) |->
        IF i = 1 /\ path[i] = None THEN "Summary" ELSE path[i]]

-----------------------------------------------------------------------------
(* The warnings for the arguments without description.                     *)

\* The warning for an argument whose description is missing.
MissingArgWarning(c, arg) ==
    [section_path |-> <<ARGS_SECTION_NAME(c)>>,
     msg |-> "The docstring for the argument '" \o arg \o "' is missing."]

\* The sections describe the argument in their section of the arguments.
DescribesArg(c, sections, arg) ==
    /\ DictHas(sections, ARGS_SECTION_NAME(c))
    /\ DictHas(DictGet(sections, ARGS_SECTION_NAME(c)).items, arg)

\* C18: after inherit, the warning for a missing description is issued for
\* an argument of the signature exactly when neither the child nor the
\* parent describes it, the argument then holding the placeholder; an
\* argument with a description in the merged section has no warning.
C18_MissingArgWarningOnlyWithoutDescription ==
    pc = "done" /\ cls = GoogleDocstringInheritor /\ parent_doc # None =>
        \A i \in 1..Len(all_args(child_func.spec)) :
           LET arg == all_args(child_func.spec)[i]
           IN  (\E j \in 1..Len(warnings) :
                   warnings[j] = MissingArgWarning(cls, arg))
               <=> /\ ~DescribesArg(cls, parent_sections, arg)
                   /\ ~DescribesArg(cls, child_sections_in, arg)

-----------------------------------------------------------------------------
(* The marker in the docstring of the child.                               *)

\* The text, or the description of an item after its colon in the Google
\* format, is the marker once trimmed.
IsMarker(c, text) ==
    \/ strip(text) = INHERIT_SECTION_MARKER
    \/ /\ IsGoogle(c)
       /\ text # ""
       /\ Chr(text, 1) = ":"
       /\ strip(SubSeq(text, 2, Len(text))) = INHERIT_SECTION_MARKER

\* The items of a section of the sections, none when the section is absent.
ItemsOf(sections, name) ==
    IF DictHas(sections, name) THEN DictGet(sections, name).items ELSE <<>>

\* The value that the parent gives to the result for an item that the child
\* does not describe: <<description>>, or <<>> when the result omits the
\* item.  In the section of the arguments an argument of the signature
\* without description holds the placeholder and any other name is dropped.
InheritedItem(c, parent, spec, name, item) ==
    LET described == DictHas(ItemsOf(parent, name), item)
    IN  IF name = ARGS_SECTION_NAME(c) /\ ~ListHas(all_args(spec), item)
        THEN <<>>
        ELSE IF described THEN <<DictGet(ItemsOf(parent, name), item)>>
        ELSE IF name = ARGS_SECTION_NAME(c) THEN <<MISSING_ARG_TEXT(c)>>
        ELSE <<>>

\* C20: after inherit, a section of the child without items whose text is
\* the marker holds the text of the parent in the result, or is absent from
\* the result when the parent lacks it; an item of the child whose
\* description is the marker holds the description of the parent in the
\* result, or is absent when the parent lacks it.
C20_MarkerInheritsFromTheParent ==
    pc = "done" /\ parent_doc # None =>
        \A i \in 1..Len(child_sections_in) :
           LET name == child_sections_in[i].k
               body == child_sections_in[i].v
           IN  IF body.kind = "str"
               THEN IsMarker(cls, body.text) =>
                        IF DictHas(parent_sections, name)
                        THEN /\ DictHas(child_sections, name)
                             /\ DictGet(child_sections, name)
                                = DictGet(parent_sections, name)
                        ELSE ~DictHas(child_sections, name)
               ELSE \A j \in 1..Len(body.items) :
                       IsMarker(cls, body.items[j].v) =>
                           LET item == body.items[j].k
                               inherited == InheritedItem(
                                                cls, parent_sections,
                                                child_func.spec, name, item)
                               items == ItemsOf(child_sections, name)
                           IN  IF inherited = <<>>
                               THEN ~DictHas(items, item)
                               ELSE /\ DictHas(items, item)
                                    /\ DictGet(items, item) = inherited[1]

-----------------------------------------------------------------------------
(* The merge applied to its own inputs and to its own result.              *)

\* The parent and the child are the same Section Model, over the arguments.
InitSelfArgs ==
    /\ InitMergeOf([c \in Classes |-> ArgsSectionModels(c, "parent")],
                   [c \in Classes |-> ArgsSectionModels(c, "parent")],
                   Signatures)
    /\ child_sections = parent_sections

\* The parent and the child are the same Section Model, over the sections.
InitSelfSections ==
    /\ InitMergeOf([c \in Classes |-> SectionModels(c, "parent")],
                   [c \in Classes |-> SectionModels(c, "parent")],
                   PlainSignatures)
    /\ child_sections = parent_sections

InitIdempotence ==
    InitArgs \/ InitSections \/ InitSelfArgs \/ InitSelfSections

\* _inherit_sections(parent_sections, merged): the sections that a first
\* call produced are the child of a second call with the same parent.
InheritSectionsAgain ==
    /\ pc = "merged"
    /\ \E child \in {merged_sections} :
       \E iter1 \in SetIterations(KeySet(parent_sections) \ KeySet(child)),
          iter2 \in SetIterations(KeySet(child)) :
          LET new_child_sections ==
                  inherit_sections(cls, parent_sections, child,
                                   child_func.spec, iter1, iter2)
          IN  /\ child_sections_in' = child
              /\ IF cls = GoogleDocstringInheritor
                 THEN /\ child_sections' = new_child_sections
                      /\ returned' = returned
                      /\ warnings' = warnings \o
                             filter_args_section_warnings(
                                 ARGS_SECTION_NAME(cls), child_func.spec)
                 ELSE /\ returned' = <<new_child_sections>>
                      /\ child_sections' = child
                      /\ UNCHANGED warnings
    /\ pc' = "merged twice"
    /\ UNCHANGED class_vars
    /\ UNCHANGED module_vars
    /\ UNCHANGED <<cls, parent_doc, child_func, parent_sections, rendered>>

NextIdempotence == InheritSections \/ InheritSectionsAgain

SpecIdempotence == InitIdempotence /\ [][NextIdempotence]_vars

\* The arguments section that the signature makes of the items: one item
\* per argument of the signature, in the order of the signature, with the
\* description of the items or the placeholder of the class.
ArgsOfSignature(c, items, spec) ==
    [i \in 1..Len(SignatureArguments(spec)) |->
        [k |-> SignatureArguments(spec)[i],
         v |-> DictGetDefault(items, SignatureArguments(spec)[i],
                              MISSING_ARG_TEXT(c))]]

\* The two Section Models map the same keys to the same values, the items
\* of a section as a mapping too.
SameItems(a, b) ==
    /\ KeySet(a) = KeySet(b)
    /\ \A name \in KeySet(a) : DictGet(a, name) = DictGet(b, name)

SameSections(a, b) ==
    /\ KeySet(a) = KeySet(b)
    /\ \A key \in KeySet(a) :
          /\ DictGet(a, key).kind = DictGet(b, key).kind
          /\ DictGet(a, key).text = DictGet(b, key).text
          /\ SameItems(DictGet(a, key).items, DictGet(b, key).items)

\* C21: the merge of a Section Model S with itself has the keys of S but
\* for the arguments section, every section other than the arguments section
\* equals that of S, and the arguments section holds the items of S made
\* into the arguments of the signature; the merge of the parent into the
\* result of a first merge gives the sections of the first merge again.
C21_MergeIsIdempotent ==
    /\ pc = "merged" /\ child_sections_in = parent_sections =>
          /\ KeySet(merged_sections) \ {ARGS_SECTION_NAME(cls)}
             = KeySet(parent_sections) \ {ARGS_SECTION_NAME(cls)}
          /\ \A key \in KeySet(parent_sections) \ {ARGS_SECTION_NAME(cls)} :
                DictGet(merged_sections, key) = DictGet(parent_sections, key)
          /\ HasArgsSection(parent_sections) =>
                ItemsOf(merged_sections, ARGS_SECTION_NAME(cls))
                = ArgsOfSignature(cls, ArgsItems(parent_sections),
                                  child_func.spec)
    /\ pc = "merged twice" => SameSections(merged_sections, child_sections_in)

-----------------------------------------------------------------------------
(* The section Other Parameters of the Numpy format.                       *)

NumpyClasses == {NumpyDocstringInheritor, NumpyDocstringProcessor}

OtherParametersNames == {"a", "x"}

\* The text of the items in the Numpy format: a name, then its description
\* indented on the next line.
RECURSIVE NumpyItemsText(_)
NumpyItemsText(items) ==
    IF items = <<>> THEN ""
    ELSE items[1].k \o items[1].v
         \o (IF Len(items) > 1 THEN "\n" ELSE "")
         \o NumpyItemsText(Tail(items))

\* The docstrings of a side: a summary alone, or followed by a section
\* Other Parameters of one item or more.
OtherParametersDocstrings(side) ==
    {"Sum"} \cup
    {"Sum\n\nOther Parameters\n----------------\n" \o NumpyItemsText(items) :
        items \in ItemDicts(NumpyDocstringInheritor, side,
                            OtherParametersNames) \ {<<>>}}

InitOtherParameters ==
    /\ cls \in NumpyClasses
    /\ parent_doc \in OtherParametersDocstrings("parent")
    /\ child_func \in {Func(doc, spec) :
                          doc \in OtherParametersDocstrings("child"),
                          spec \in InheritSignatures}
    /\ parent_sections = <<>>
    /\ child_sections = <<>>
    /\ child_sections_in = <<>>
    /\ returned = <<>>
    /\ warnings = <<>>
    /\ rendered = <<>>
    /\ attr_name = None
    /\ mro_classes = <<>>
    /\ mro_index = 0
    /\ visited = <<>>
    /\ class_doc = None
    /\ init_in_class = FALSE
    /\ init_methods = <<>>
    /\ init_method = 0
    /\ old_init_doc = None
    /\ environ = None
    /\ SIMILARITY_RATIO = <<9, 10>>
    /\ pc = "parse"

\* parent_sections = _parse_sections(parent_doc) and
\* child_sections = _parse_sections(child_func.__doc__)
ParseParentAndChild ==
    /\ pc = "parse"
    /\ parent_sections' = parse_sections(cls, parent_doc)
    /\ child_sections' = parse_sections(cls, child_func.doc)
    /\ child_sections_in' = parse_sections(cls, child_func.doc)
    /\ pc' = "parsed"
    /\ UNCHANGED class_vars
    /\ UNCHANGED module_vars
    /\ UNCHANGED <<cls, parent_doc, child_func, returned, warnings, rendered>>

NextOtherParameters == ParseParentAndChild \/ InheritSections

SpecOtherParameters == InitOtherParameters /\ [][NextOtherParameters]_vars

\* The docstring has a section Other Parameters.
HasOtherParameters(docstring) ==
    ListHas(splitlines(docstring), "Other Parameters")

\* The items that the text of the docstring gives to Other Parameters: the
\* unindented lines of the section are the names, the line under each name
\* is its description.
OtherParametersOf(docstring) ==
    LET lines == splitlines(docstring)
        first == (CHOOSE n \in 1..Len(lines) : lines[n] = "Other Parameters")
                 + 2
        names == SelectSeq([n \in 1..Len(lines) |-> n],
                           LAMBDA n : n >= first /\ lines[n] # ""
                                      /\ Chr(lines[n], 1) # " ")
    IN  [i \in 1..Len(names) |->
            [k |-> lines[names[i]], v |-> "\n" \o lines[names[i] + 1]]]

\* The items of the parent overlaid with the items of the child.
Overlaid(parent_items, child_items) ==
    [i \in 1..Len(parent_items) |->
        [k |-> parent_items[i].k,
         v |-> DictGetDefault(child_items, parent_items[i].k,
                              parent_items[i].v)]]
    \o SelectSeq(child_items, LAMBDA e : ~DictHas(parent_items, e.k))

\* C22: in the Numpy format a section Other Parameters is parsed into its
\* items, and the merge gives the items of the parent overlaid with those
\* of the child when both have the section, the items of the one that has
\* it otherwise, whatever the signature is.
C22_OtherParametersIsAnItemSection ==
    LET parent_items == IF HasOtherParameters(parent_doc)
                        THEN OtherParametersOf(parent_doc) ELSE <<>>
        child_items == IF HasOtherParameters(child_func.doc)
                       THEN OtherParametersOf(child_func.doc) ELSE <<>>
    IN  /\ pc \in {"parsed", "merged"} =>
              /\ HasOtherParameters(parent_doc) =>
                    /\ DictHas(parent_sections, "Other Parameters")
                    /\ DictGet(parent_sections, "Other Parameters")
                       = DictBody(parent_items)
              /\ HasOtherParameters(child_func.doc) =>
                    /\ DictHas(child_sections_in, "Other Parameters")
                    /\ DictGet(child_sections_in, "Other Parameters")
                       = DictBody(child_items)
        /\ pc = "merged" =>
              IF HasOtherParameters(parent_doc)
                 \/ HasOtherParameters(child_func.doc)
              THEN /\ DictHas(merged_sections, "Other Parameters")
                   /\ DictGet(merged_sections, "Other Parameters")
                      = DictBody(Overlaid(parent_items, child_items))
              ELSE ~DictHas(merged_sections, "Other Parameters")

-----------------------------------------------------------------------------
(* The order of the sections that are not standard.                        *)

\* The keys of the sections that have no place in the standard order, in the
\* order of the sections.
OtherKeys(sections) ==
    SelectSeq(KeyList(sections), LAMBDA key : StandardRank(key) = 0)

\* C23: in the result of a merge the keys that are not standard are those
\* that only the parent has, in the order of the parent, then those of the
\* child, in the order of the child.
C23_OtherSectionsInTheOrderMet ==
    pc = "merged" =>
        OtherKeys(merged_sections)
        = SelectSeq(OtherKeys(parent_sections),
                    LAMBDA key : ~DictHas(child_sections_in, key))
          \o OtherKeys(child_sections_in)

-----------------------------------------------------------------------------
(* The items of the body of a section.                                     *)

\* The lines of the bodies explored: names with stars or a type, an indented
\* continuation, an indented name, a line that starts with neither a name nor
\* a blank, an empty line.
ItemLines == {"x", "x: int", "**k", "  more", " y", "(n)", ""}

\* The bodies of at most MaxLines lines; like a body that _get_section_body
\* returns, a body neither starts nor ends with an empty line.
ItemBodies ==
    {join("\n", lines) :
        lines \in {l \in UNION {[1..n -> ItemLines] : n \in 1..MaxLines} :
                      l[1] # "" /\ l[Len(l)] # ""}}

InitItems ==
    /\ cls \in Classes
    /\ parent_doc \in ItemBodies
    /\ child_func = Func(None, DummySignature)
    /\ parent_sections = <<>>
    /\ child_sections = <<>>
    /\ child_sections_in = <<>>
    /\ returned = <<>>
    /\ warnings = <<>>
    /\ rendered = <<>>
    /\ attr_name = None
    /\ mro_classes = <<>>
    /\ mro_index = 0
    /\ visited = <<>>
    /\ class_doc = None
    /\ init_in_class = FALSE
    /\ init_methods = <<>>
    /\ init_method = 0
    /\ old_init_doc = None
    /\ environ = None
    /\ SIMILARITY_RATIO = <<9, 10>>
    /\ pc = "body"

\* The parser stores the body of the arguments section: the body goes
\* through _parse_section_items.
ParseSectionItems ==
    /\ pc = "body"
    /\ parent_sections' =
           <<[k |-> ARGS_SECTION_NAME(cls),
              v |-> section_value(cls, ARGS_SECTION_NAME(cls), parent_doc)]>>
    /\ pc' = "items"
    /\ UNCHANGED class_vars
    /\ UNCHANGED module_vars
    /\ UNCHANGED <<cls, parent_doc, child_func, child_sections,
                   child_sections_in, returned, warnings, rendered>>

NextItems == ParseSectionItems

SpecItems == InitItems /\ [][NextItems]_vars

\* The length of the name that starts the line: word characters after no
\* star, one star or two stars at the start of the line, 0 for a line that
\* starts otherwise.
ItemNameLength(line) ==
    LET stars == stars_at(line, 1)
        words == words_at(line, 1 + stars)
    IN  IF stars <= 2 /\ words > 0 THEN stars + words ELSE 0

\* The numbers of the lines that start an item, in increasing order.
ItemStarts(lines) ==
    SelectSeq([n \in 1..Len(lines) |-> n],
              LAMBDA n : ItemNameLength(lines[n]) > 0)

\* The item that starts at the i-th start: its name, and for description
\* the rest of its line and the lines up to the next start.
ItemAt(lines, starts, i) ==
    LET first == starts[i]
        last == IF i < Len(starts) THEN starts[i + 1] - 1 ELSE Len(lines)
        length == ItemNameLength(lines[first])
    IN  [k |-> SubSeq(lines[first], 1, length),
         v |-> join("\n",
                    <<SubSeq(lines[first], length + 1, Len(lines[first]))>>
                    \o SubSeq(lines, first + 1, last))]

\* C24: the items parsed from a body are, in order, one item for each
\* unindented line that starts with a name, the name bound to the text that
\* follows it up to the next such line or the end of the body; the names
\* followed by their descriptions and joined by newlines give the body back.
C24_ItemsAreTheLinesThatStartWithAName ==
    pc = "items" =>
        LET lines == split(parent_doc)
            starts == ItemStarts(lines)
            items == parent_sections[1].v.items
        IN  /\ items = [i \in 1..Len(starts) |-> ItemAt(lines, starts, i)]
            /\ join("\n", [i \in 1..Len(items) |-> items[i].k \o items[i].v])
               = parent_doc

-----------------------------------------------------------------------------
(* The ratio that equals the threshold.                                    *)

\* The common texts whose ratio is the threshold or more, the threshold not
\* being 0.
AtLeastAsSimilarLeaves(c, parent, child, threshold) ==
    {leaf \in CommonLeaves(c, parent, child) :
        /\ threshold[1] # 0
        /\ ~greater(threshold, ratio(leaf.parent_text, leaf.child_text))}

\* C25: after inherit, a text that the parent and the child both have has
\* a similarity warning when its ratio is the threshold in force or more:
\* the ratio that equals the threshold warns too.
C25_RatioEqualToTheThresholdWarns ==
    pc = "done" /\ cls = GoogleDocstringInheritor /\ parent_doc # None =>
        {SimilarityWarnings[i].section_path :
            i \in 1..Len(SimilarityWarnings)}
        = {ShownPath(leaf.path) :
              leaf \in AtLeastAsSimilarLeaves(cls, parent_sections,
                                              child_sections_in,
                                              SIMILARITY_RATIO)}

-----------------------------------------------------------------------------
(* The call of _warn_similar_sections on the sections parsed from the      *)
(* parent and the child, before they are merged.                           *)

\* The texts compared: the ratio of "x" and "xx" is 2/3, that of a text and
\* itself is 1.
AuditedTexts == {"x", "xx"}

\* The names of the items: an argument, and a name that is also the name of
\* a section with items.
AuditedItemNames == {"a", "Attributes"}

\* The items that the Google parser returns: at most MaxItems items.
AuditedItems ==
    UNION {{[i \in 1..Len(names) |->
                [k |-> names[i], v |-> ": " \o texts[i]]] :
              texts \in [1..Len(names) -> AuditedTexts]} :
           names \in InjSeqs(AuditedItemNames, MaxItems)}

\* The Section Models audited: a summary or none, the arguments or none, a
\* section Returns or none, in the order of the docstring.
AuditedModels ==
    {summary \o args \o returns :
        summary \in {<<>>} \cup
                    {<<[k |-> None, v |-> StrBody(text)]>> :
                        text \in AuditedTexts},
        args \in {<<>>} \cup
                 {<<[k |-> "Args", v |-> DictBody(items)]>> :
                     items \in AuditedItems},
        returns \in {<<>>, <<[k |-> "Returns", v |-> StrBody("x")]>>}}

InitAudit ==
    /\ cls = GoogleDocstringInheritor
    /\ parent_doc = None
    /\ child_func \in {Func(None, spec) : spec \in PlainSignatures}
    /\ parent_sections \in AuditedModels
    /\ child_sections \in AuditedModels
    /\ child_sections_in = child_sections
    /\ returned = <<>>
    /\ warnings = <<>>
    /\ rendered = <<>>
    /\ attr_name = None
    /\ mro_classes = <<>>
    /\ mro_index = 0
    /\ visited = <<>>
    /\ class_doc = None
    /\ init_in_class = FALSE
    /\ init_methods = <<>>
    /\ init_method = 0
    /\ old_init_doc = None
    /\ environ = None
    /\ SIMILARITY_RATIO = HARD_CODED_SIMILARITY_RATIO
    /\ pc = "audit"

\* An auditor that writes "Summary" in place of the key of the summary of
\* the child when it warns about the summary.
WarnSimilarSections_renaming_the_summary ==
    /\ pc = "audit"
    /\ \E similar \in {warn_similar_sections(cls, parent_sections,
                                              child_sections, 1, <<>>)} :
          /\ warnings' = warnings \o similar.warnings
          /\ pc' = IF similar.raised THEN "raised" ELSE "parsed"
          /\ child_sections' =
                 [i \in 1..Len(child_sections) |->
                     IF child_sections[i].k = None
                        /\ \E j \in 1..Len(similar.warnings) :
                              similar.warnings[j].section_path = <<"Summary">>
                     THEN [k |-> "Summary", v |-> child_sections[i].v]
                     ELSE child_sections[i]]
    /\ UNCHANGED class_vars
    /\ UNCHANGED module_vars
    /\ UNCHANGED <<cls, parent_doc, child_func, parent_sections,
                   child_sections_in, returned, rendered>>

\* inheritor._warn_similar_sections(parent_sections, child_sections): the
\* warnings are issued, or the call raises; the sections are read only.
WarnSimilarSections ==
    /\ pc = "audit"
    /\ \E similar \in {warn_similar_sections(cls, parent_sections,
                                              child_sections, 1, <<>>)} :
          /\ warnings' = warnings \o similar.warnings
          /\ pc' = IF similar.raised THEN "raised" ELSE "parsed"
    /\ UNCHANGED class_vars
    /\ UNCHANGED module_vars
    /\ UNCHANGED <<cls, parent_doc, child_func, parent_sections,
                   child_sections, child_sections_in, returned, rendered>>

NextAudit == WarnSimilarSections \/ InheritSections

SpecAudit == InitAudit /\ [][NextAudit]_vars

C29_AuditorNeverRaises == pc # "raised"

-----------------------------------------------------------------------------
(* The arguments of __init__ documented in the docstring of the class.     *)

\* The names of the arguments section of the docstring of the class.
ClassDocstringArguments == KeySet(args_items(cls, parse_sections(cls, class_doc)))

\* A parent class has a docstring, so that the docstring of the class was
\* merged.
SomeParentHasDocstring ==
    \E i \in 1..Len(mro_classes) : mro_classes[i].doc # None

\* C27: with init_in_class, once the docstring of the class is set, its
\* arguments section holds the arguments of the __init__ of the class itself,
\* every __init__ has the docstring it had before the step, and when the
\* __init__ of the class is the one of object the step takes a dummy
\* function and assigns no docstring to object.__init__.
C27_InitInClassUsesAndRestoresTheOwnInit ==
    init_in_class =>
        /\ pc # "AttributeError"
        /\ pc = "done" =>
               /\ \A i \in 1..Len(init_methods) :
                      init_methods[i].defined =>
                          init_methods[i].doc = InitDocstring(i)
               /\ getattr_init(1) = 0 =>
                      /\ init_method = 0
                      /\ child_func.spec = DummySignature
               /\ (getattr_init(1) # 0 /\ SomeParentHasDocstring) =>
                      ClassDocstringArguments =
                          Range(all_args(init_methods[getattr_init(1)].spec))

-----------------------------------------------------------------------------
(* The merge and the sections of the parent.                               *)

\* C28: the merge leaves the sections of the parent as they were: the same
\* keys in the same order, with the same texts and the same items.
C28_MergeLeavesTheParentUnchanged ==
    [][pc = "parsed" => parent_sections' = parent_sections]_vars

\* The parent and the child both had the arguments section and the merge
\* ran: the signature filtered an argument of the parent out, and the child
\* overlaid the description of another one.
C28_Witness ==
    /\ pc = "merged"
    /\ \E name \in KeySet(args_items(cls, parent_sections)) :
           ~DictHas(args_items(cls, merged_sections), name)
    /\ \E other \in KeySet(args_items(cls, parent_sections))
                        \cap KeySet(args_items(cls, child_sections_in)) :
           /\ DictHas(args_items(cls, merged_sections), other)
           /\ DictGet(args_items(cls, merged_sections), other)
                  # DictGet(args_items(cls, parent_sections), other)

-----------------------------------------------------------------------------
(* The self-reference of the signature.                                    *)

\* The arguments of a signature when only a self-reference in the first
\* position is dropped.
ArgumentsWithoutFirstSelf(spec) ==
    Range(IF spec.args # <<>> /\ spec.args[1] = "self"
          THEN Tail(spec.args)
          ELSE spec.args)
    \cup (IF spec.varargs = None THEN {} ELSE {"*" \o spec.varargs})
    \cup Range(spec.kwonlyargs)
    \cup (IF spec.varkw = None THEN {} ELSE {"**" \o spec.varkw})

\* C30: when the parent and the child both have the arguments section, the
\* merged arguments section has an entry for every parameter of the
\* signature but a self-reference in the first position, a parameter named
\* self in another position included, and no other entry.
C30_OnlyAFirstSelfIsDropped ==
    (/\ pc = "merged"
     /\ DictHas(parent_sections, ARGS_SECTION_NAME(cls))
     /\ DictHas(child_sections_in, ARGS_SECTION_NAME(cls))) =>
        KeySet(args_items(cls, merged_sections))
            = ArgumentsWithoutFirstSelf(child_func.spec)

====
